---- MODULE Spec2Model ----
(***************************************************************************)
(* A model of the formula engine of blocks-finance                         *)
(* (src/backend/app/formula_engine.py) and of the formula endpoints of     *)
(* src/backend/app/main.py that feed it.                                   *)
(*                                                                         *)
(* Strings on which the code computes (identifiers, formula names) are     *)
(* sequences of one-character strings, so that str.lower, str.upper and    *)
(* str.replace are computed.  Numbers are exact rationals n/d in lowest    *)
(* terms with d > 0; a Python bool is the number 0 or 1 with its own kind. *)
(***************************************************************************)
EXTENDS Integers, Sequences, FiniteSets, TLC

(***************************************************************************)
(* Python strings                                                          *)
(***************************************************************************)
LowerChar(c) ==
    CASE c = "A" -> "a" [] c = "B" -> "b" [] c = "C" -> "c" [] c = "D" -> "d"
      [] c = "E" -> "e" [] c = "F" -> "f" [] c = "G" -> "g" [] c = "H" -> "h"
      [] c = "I" -> "i" [] c = "J" -> "j" [] c = "K" -> "k" [] c = "L" -> "l"
      [] c = "M" -> "m" [] c = "N" -> "n" [] c = "O" -> "o" [] c = "P" -> "p"
      [] c = "Q" -> "q" [] c = "R" -> "r" [] c = "S" -> "s" [] c = "T" -> "t"
      [] c = "U" -> "u" [] c = "V" -> "v" [] c = "W" -> "w" [] c = "X" -> "x"
      [] c = "Y" -> "y" [] c = "Z" -> "z" [] OTHER -> c

UpperChar(c) ==
    CASE c = "a" -> "A" [] c = "b" -> "B" [] c = "c" -> "C" [] c = "d" -> "D"
      [] c = "e" -> "E" [] c = "f" -> "F" [] c = "g" -> "G" [] c = "h" -> "H"
      [] c = "i" -> "I" [] c = "j" -> "J" [] c = "k" -> "K" [] c = "l" -> "L"
      [] c = "m" -> "M" [] c = "n" -> "N" [] c = "o" -> "O" [] c = "p" -> "P"
      [] c = "q" -> "Q" [] c = "r" -> "R" [] c = "s" -> "S" [] c = "t" -> "T"
      [] c = "u" -> "U" [] c = "v" -> "V" [] c = "w" -> "W" [] c = "x" -> "X"
      [] c = "y" -> "Y" [] c = "z" -> "Z" [] OTHER -> c

\* str.lower()
Lower(s) == [i \in 1..Len(s) |-> LowerChar(s[i])]

\* str.upper()
Upper(s) == [i \in 1..Len(s) |-> UpperChar(s[i])]

\* str.replace(old, new) for one-character old and new
Replace(s, old, new) == [i \in 1..Len(s) |-> IF s[i] = old THEN new ELSE s[i]]

(***************************************************************************)
(* Python values: None, bool, number                                       *)
(***************************************************************************)
Abs(i) == IF i < 0 THEN -i ELSE i

RECURSIVE Gcd(_, _)
Gcd(a, b) == IF b = 0 THEN a ELSE Gcd(b, a % b)

None == [k |-> "none", n |-> 0, d |-> 1]

Bool(b) == [k |-> "bool", n |-> IF b THEN 1 ELSE 0, d |-> 1]

\* the number n/d, d # 0, in lowest terms
Num(n, d) ==
    LET s == IF d < 0 THEN -1 ELSE 1
        g == Gcd(Abs(n), Abs(d))
    IN  [k |-> "num", n |-> (s * n) \div g, d |-> (s * d) \div g]

IntV(i) == Num(i, 1)

\* the str constant of the model's inputs (there is one, so that two values
\* of this kind are the same string)
Str == [k |-> "str", n |-> 0, d |-> 1]

\* a value the model does not carry: a float that is no small rational (the
\* square root of 2), a complex number, a computed string.  The inputs of the
\* specifications are chosen so that it does not arise.
Inexact == [k |-> "inexact", n |-> 0, d |-> 1]

IsNone(v) == v.k = "none"

IsNumber(v) == v.k \in {"num", "bool"}

\* a faulty truth value, for which everything is true
TruthyAlways(v) == TRUE

\* a faulty truth value, for which None is true
TruthyUnlessZero(v) ==
    CASE v.k \in {"num", "bool"} -> v.n # 0
      [] OTHER -> TRUE

\* Python truth value: None, False and zero are falsy
Truthy(v) ==
    CASE v.k = "none" -> FALSE
      [] v.k \in {"num", "bool"} -> v.n # 0
      [] OTHER -> TRUE

\* floor of the rational n/d, d > 0
Floor(n, d) == n \div d

(***************************************************************************)
(* Outcomes of a Python computation: a value, or a raised exception.       *)
(* exc is <<>> when nothing was raised, else <<type, str(e)>> with         *)
(* str(e) a sequence of strings.                                           *)
(***************************************************************************)
Ok(v) == [exc |-> <<>>, v |-> v]

Raise(type, arg) == [exc |-> <<type, arg>>, v |-> None]

Raised(r) == r.exc # <<>>

\* Exceptions that are instances of ValueError / Exception (the classes the
\* except clauses of evaluate name); ZeroDivisionError, KeyError, TypeError,
\* OverflowError, AttributeError, SyntaxError and RecursionError are not
\* ValueErrors, and all of them are Exceptions.
IsValueError(type) == type = "ValueError"

(***************************************************************************)
(* Rational arithmetic behind the operator module                          *)
(***************************************************************************)
NumAdd(a, b) == Num(a.n * b.d + b.n * a.d, a.d * b.d)

NumSub(a, b) == Num(a.n * b.d - b.n * a.d, a.d * b.d)

NumMul(a, b) == Num(a.n * b.n, a.d * b.d)

NumLt(a, b) == a.n * b.d < b.n * a.d

NumEq(a, b) == a.n * b.d = b.n * a.d

\* operator.truediv
NumDiv(a, b) ==
    IF b.n = 0 THEN Raise("ZeroDivisionError", <<"division by zero">>)
    ELSE Ok(Num(a.n * b.d, a.d * b.n))

\* operator.mod: a - b * floor(a / b), the sign of the divisor
NumMod(a, b) ==
    IF b.n = 0 THEN Raise("ZeroDivisionError", <<"modulo by zero">>)
    ELSE LET q == Num(a.n * b.d, a.d * b.n)
             f == IntV(Floor(q.n, q.d))
         IN  Ok(NumSub(a, NumMul(b, f)))

\* i ** n for an int n >= 0 (0 ** 0 is 1)
RECURSIVE IntPow(_, _)
IntPow(i, n) == IF n = 0 THEN 1 ELSE i * IntPow(i, n - 1)

\* operator.pow and the builtin pow with two arguments
NumPow(a, b) ==
    IF b.d = 1
    THEN IF b.n >= 0 THEN Ok(Num(IntPow(a.n, b.n), IntPow(a.d, b.n)))
         ELSE IF a.n = 0
              THEN Raise("ZeroDivisionError",
                         <<"0.0 cannot be raised to a negative power">>)
              ELSE Ok(Num(IntPow(a.d, -b.n), IntPow(a.n, -b.n)))
    ELSE IF a.n = 0 THEN Ok(IntV(0))
         ELSE IF a.n = a.d THEN Ok(IntV(1))
         ELSE Ok(Inexact)

(***************************************************************************)
(* SAFE_OPERATORS: the operator table and what its entries compute         *)
(***************************************************************************)
SAFE_OPERATORS ==
    {"Add", "Sub", "Mult", "Div", "Pow", "Mod", "USub", "UAdd",
     "Gt", "Lt", "GtE", "LtE", "Eq", "NotEq", "And", "Or", "Not"}

\* the KeyError of SAFE_OPERATORS[type(node.op)]
OperatorKeyError(op) == Raise("KeyError", <<"<class 'ast.", op, "'>">>)

\* op_func(left, right) of a BinOp
ApplyBinOp(op, l, r) ==
    IF IsNone(l) \/ IsNone(r)
    THEN Raise("TypeError", <<"unsupported operand type(s)">>)
    ELSE IF l.k = "str" \/ r.k = "str"
    THEN IF (op = "Add" /\ l.k = "str" /\ r.k = "str")
            \/ (op = "Mult" /\ l.k # r.k) \/ (op = "Mod" /\ l.k = "str")
         THEN Ok(Inexact)
         ELSE Raise("TypeError", <<"unsupported operand type(s)">>)
    ELSE IF l.k = "inexact" \/ r.k = "inexact"
    THEN IF op \in {"Div", "Mod"} /\ IsNumber(r) /\ r.n = 0
         THEN Raise("ZeroDivisionError", <<"division by zero">>)
         ELSE Ok(Inexact)
    ELSE CASE op = "Add" -> Ok(NumAdd(l, r))
           [] op = "Sub" -> Ok(NumSub(l, r))
           [] op = "Mult" -> Ok(NumMul(l, r))
           [] op = "Div" -> NumDiv(l, r)
           [] op = "Pow" -> NumPow(l, r)
           [] op = "Mod" -> NumMod(l, r)

\* op_func(operand) of a UnaryOp
ApplyUnaryOp(op, x) ==
    IF op = "Not" THEN Ok(Bool(~Truthy(x)))
    ELSE IF x.k \in {"str", "none"} THEN Raise("TypeError", <<"bad operand type for unary">>)
    ELSE IF x.k = "inexact" THEN Ok(Inexact)
    ELSE CASE op = "USub" -> Ok(Num(-x.n, x.d))
           [] op = "UAdd" -> Ok(Num(x.n, x.d))

\* op_func(left, right) of one link of a Compare
ApplyCompareOp(op, l, r) ==
    IF l.k = "inexact" \/ r.k = "inexact" THEN Ok(Inexact)
    ELSE IF l.k \in {"str", "none"} \/ r.k \in {"str", "none"}
    THEN IF l.k = r.k
         THEN Ok(Bool(op \in {"Eq", "GtE", "LtE"}))
         ELSE IF op = "Eq" THEN Ok(Bool(FALSE))
         ELSE IF op = "NotEq" THEN Ok(Bool(TRUE))
         ELSE Raise("TypeError", <<"not supported between instances">>)
    ELSE CASE op = "Gt" -> Ok(Bool(NumLt(r, l)))
           [] op = "Lt" -> Ok(Bool(NumLt(l, r)))
           [] op = "GtE" -> Ok(Bool(~NumLt(l, r)))
           [] op = "LtE" -> Ok(Bool(~NumLt(r, l)))
           [] op = "Eq" -> Ok(Bool(NumEq(l, r)))
           [] op = "NotEq" -> Ok(Bool(~NumEq(l, r)))

(***************************************************************************)
(* SAFE_FUNCTIONS: the built-in functions, each named by the Python        *)
(* callable the table binds it to, and what that callable computes on      *)
(* positional arguments                                                    *)
(***************************************************************************)
SAFE_FUNCTIONS ==
    {<< <<"S","Q","R","T">>, "math.sqrt" >>,
     << <<"A","B","S">>, "abs" >>,
     << <<"M","A","X">>, "max" >>,
     << <<"M","I","N">>, "min" >>,
     << <<"A","V","G">>, "lambda avg" >>,
     << <<"S","U","M">>, "sum" >>,
     << <<"P","O","W">>, "pow" >>,
     << <<"L","O","G">>, "math.log" >>,
     << <<"L","O","G","1","0">>, "math.log10" >>,
     << <<"E","X","P">>, "math.exp" >>,
     << <<"R","O","U","N","D">>, "round" >>,
     << <<"F","L","O","O","R">>, "math.floor" >>,
     << <<"C","E","I","L">>, "math.ceil" >>,
     << <<"I","F">>, "lambda if" >>,
     << <<"C","O","A","L","E","S","C","E">>, "lambda coalesce" >>,
     << <<"I","S","N","U","L","L">>, "lambda isnull" >>,
     << <<"N","U","L","L","I","F">>, "lambda nullif" >>}

\* a dict given as a set of <<key, value>> pairs, as a function
DictOf(pairs) ==
    [key \in {p[1] : p \in pairs} |-> (CHOOSE p \in pairs : p[1] = key)[2]]

\* d1.update(d2); also {**d1, **d2}
DictUpdate(d1, d2) ==
    [key \in DOMAIN d1 \cup DOMAIN d2 |->
        IF key \in DOMAIN d2 THEN d2[key] ELSE d1[key]]

ArgTypeError == Raise("TypeError", <<"bad argument count or type">>)

AllNumbers(args) == \A i \in 1..Len(args) : IsNumber(args[i])

RECURSIVE SumOf(_)
SumOf(args) ==
    IF args = <<>> THEN IntV(0) ELSE NumAdd(Head(args), SumOf(Tail(args)))

\* max(*args) / min(*args) for two or more numbers: the first extremal one
MaxOf(args) ==
    args[CHOOSE i \in 1..Len(args) :
            /\ \A j \in 1..Len(args) : ~NumLt(args[i], args[j])
            /\ \A j \in 1..(i - 1) : NumLt(args[j], args[i])]

MinOf(args) ==
    args[CHOOSE i \in 1..Len(args) :
            /\ \A j \in 1..Len(args) : ~NumLt(args[j], args[i])
            /\ \A j \in 1..(i - 1) : NumLt(args[i], args[j])]

\* math.sqrt of a rational: exact when numerator and denominator are squares
SqrtOf(x) ==
    IF x.n < 0 THEN Raise("ValueError", <<"math domain error">>)
    ELSE IF \E a \in 0..x.n : \E b \in 1..x.d : a * a = x.n /\ b * b = x.d
    THEN LET a == CHOOSE a \in 0..x.n : a * a = x.n
             b == CHOOSE b \in 1..x.d : b * b = x.d
         IN  Ok(Num(a, b))
    ELSE Ok(Inexact)

\* round(x): to the nearest integer, halves to the even one
RoundOf(x) ==
    LET f == Floor(x.n, x.d)
        twice == 2 * (x.n - f * x.d)
    IN  IF twice < x.d THEN f
        ELSE IF twice > x.d THEN f + 1
        ELSE IF f % 2 = 0 THEN f ELSE f + 1

\* func(*args) for the callable bound to a function name
CallFunction(impl, args) ==
    LET n == Len(args) IN
    CASE impl \notin {"lambda coalesce", "lambda if", "lambda isnull", "sum"}
         /\ \E i \in 1..n : args[i].k = "inexact" -> Ok(Inexact)
      [] impl = "lambda coalesce" ->
           IF \E i \in 1..n : ~IsNone(args[i])
           THEN Ok(args[CHOOSE i \in 1..n :
                          /\ ~IsNone(args[i])
                          /\ \A j \in 1..(i - 1) : IsNone(args[j])])
           ELSE Ok(None)
      [] impl = "lambda if" ->
           IF n # 3 THEN ArgTypeError
           ELSE IF Truthy(args[1]) THEN Ok(args[2]) ELSE Ok(args[3])
      [] impl = "lambda isnull" ->
           IF n # 1 THEN ArgTypeError ELSE Ok(Bool(IsNone(args[1])))
      [] impl = "lambda nullif" ->
           IF n # 2 THEN ArgTypeError
           ELSE IF args[1] = args[2]
                   \/ (AllNumbers(args) /\ NumEq(args[1], args[2]))
                THEN Ok(None) ELSE Ok(args[1])
      [] impl = "lambda avg" ->
           IF n = 0 THEN Ok(IntV(0))
           ELSE IF ~AllNumbers(args) THEN ArgTypeError
           ELSE NumDiv(SumOf(args), IntV(n))
      [] impl = "sum" ->
           \* sum(iterable, start): a number is not iterable
           ArgTypeError
      [] impl \in {"max", "min"} ->
           \* one argument must be an iterable; none is an error
           IF n < 2 \/ ~AllNumbers(args) THEN ArgTypeError
           ELSE IF impl = "max" THEN Ok(MaxOf(args)) ELSE Ok(MinOf(args))
      [] impl = "abs" ->
           IF n # 1 \/ ~IsNumber(args[1]) THEN ArgTypeError
           ELSE Ok(Num(Abs(args[1].n), args[1].d))
      [] impl = "math.sqrt" ->
           IF n # 1 \/ ~IsNumber(args[1]) THEN ArgTypeError
           ELSE SqrtOf(args[1])
      [] impl = "pow" ->
           IF n = 3 /\ AllNumbers(args) THEN Ok(Inexact)
           ELSE IF n # 2 \/ ~AllNumbers(args) THEN ArgTypeError
           ELSE NumPow(args[1], args[2])
      [] impl \in {"math.log", "math.log10"} ->
           IF n = 2 /\ impl = "math.log" /\ AllNumbers(args) THEN Ok(Inexact)
           ELSE IF n # 1 \/ ~IsNumber(args[1]) THEN ArgTypeError
           ELSE IF args[1].n <= 0
                THEN Raise("ValueError", <<"math domain error">>)
           ELSE IF args[1].n = args[1].d THEN Ok(IntV(0))
           ELSE Ok(Inexact)
      [] impl = "math.exp" ->
           IF n # 1 \/ ~IsNumber(args[1]) THEN ArgTypeError
           ELSE IF args[1].n = 0 THEN Ok(IntV(1)) ELSE Ok(Inexact)
      [] impl = "round" ->
           IF n = 2 /\ AllNumbers(args) THEN Ok(Inexact)
           ELSE IF n # 1 \/ ~IsNumber(args[1]) THEN ArgTypeError
           ELSE Ok(IntV(RoundOf(args[1])))
      [] impl = "math.floor" ->
           IF n # 1 \/ ~IsNumber(args[1]) THEN ArgTypeError
           ELSE Ok(IntV(Floor(args[1].n, args[1].d)))
      [] impl = "math.ceil" ->
           IF n # 1 \/ ~IsNumber(args[1]) THEN ArgTypeError
           ELSE Ok(IntV(-Floor(-args[1].n, args[1].d)))
      [] OTHER -> Ok(Inexact)

(***************************************************************************)
(* The syntax trees ast.parse builds (the node classes the engine tells    *)
(* apart; any other class, e.g. Attribute or List, is a node with its own  *)
(* class name in t)                                                        *)
(***************************************************************************)
Constant(value) == [t |-> "Constant", value |-> value]

Name(id) == [t |-> "Name", id |-> id]

BinOp(left, op, right) ==
    [t |-> "BinOp", left |-> left, op |-> op, right |-> right]

UnaryOp(op, operand) == [t |-> "UnaryOp", op |-> op, operand |-> operand]

Compare(left, ops, comparators) ==
    [t |-> "Compare", left |-> left, ops |-> ops, comparators |-> comparators]

BoolOp(op, values) == [t |-> "BoolOp", op |-> op, values |-> values]

Call(func, args) == [t |-> "Call", func |-> func, args |-> args]

IfExp(test, body, orelse) ==
    [t |-> "IfExp", test |-> test, body |-> body, orelse |-> orelse]

\* value.attr, the callee of a method call such as a.b(1)
Attribute(value, attr) == [t |-> "Attribute", value |-> value, attr |-> attr]

(***************************************************************************)
(* FormulaEngine._eval_node                                                *)
(*                                                                         *)
(* The outcome of evaluating a node: exc and v as above, fu the names the  *)
(* evaluation appended to fields_used, in order, and reads the             *)
(* <<name, value>> pairs of the lookups context[name] it made, in order.   *)
(***************************************************************************)
Returned(v, fu, reads) == [exc |-> <<>>, v |-> v, fu |-> fu, reads |-> reads]

Thrown(exc, fu, reads) == [exc |-> exc, v |-> None, fu |-> fu, reads |-> reads]

\* the outcome r of an operator or function, after evaluations that
\* appended fu and made reads
Then(r, fu, reads) == [exc |-> r.exc, v |-> r.v, fu |-> fu, reads |-> reads]

\* a faulty list of the functions called with None arguments, with NULLIF
\* and the caller's FOO in it
NullAwareAndMore ==
    {<<"C","O","A","L","E","S","C","E">>, <<"I","F">>,
     <<"I","S","N","U","L","L">>, <<"N","U","L","L","I","F">>, <<"F","O","O">>}

\* a faulty list of them, without COALESCE
NullAwareWithoutCoalesce == {<<"I","F">>, <<"I","S","N","U","L","L">>}

\* ("COALESCE", "IF", "ISNULL"): the functions called with None arguments
NULL_AWARE ==
    {<<"C","O","A","L","E","S","C","E">>, <<"I","F">>,
     <<"I","S","N","U","L","L">>}

\* a faulty test of a side of a comparison, which finds no None
NoSideIsNone(side) == FALSE

\* left is None, right is None: the test of each side of a comparison
SideIsNone(side) == IsNone(side)

\* a faulty step of the chain, which compares every comparator with the
\* first operand
KeepLeft(left, right) == left

\* left = right: the next link compares the comparator just evaluated
NextLeft(left, right) == right

\* a faulty test, of the left operand alone
OnlyLeftIsNone(left, right) == IsNone(left)

\* left is None or right is None
EitherIsNone(left, right) == IsNone(left) \/ IsNone(right)

RECURSIVE eval_node(_, _, _)
RECURSIVE eval_args(_, _, _)
RECURSIVE eval_comparators(_, _, _, _, _, _, _)
RECURSIVE eval_values(_, _, _, _, _, _)

\* a faulty list of arguments, in which an argument that raises counts as
\* None and the arguments after it are still evaluated
RECURSIVE EvalArgsForgiving(_, _, _)
EvalArgsForgiving(args, context, functions) ==
    IF args = <<>> THEN Returned(<<>>, <<>>, <<>>)
    ELSE LET a == eval_node(Head(args), context, functions)
             rest == EvalArgsForgiving(Tail(args), context, functions)
         IN  Returned(<<a.v>> \o rest.v, a.fu \o rest.fu,
                      a.reads \o rest.reads)

\* [self._eval_node(arg, context, fields_used) for arg in node.args]:
\* v is the list of values; the first argument that raises ends it
eval_args(args, context, functions) ==
    IF args = <<>> THEN Returned(<<>>, <<>>, <<>>)
    ELSE LET a == eval_node(Head(args), context, functions) IN
         IF Raised(a) THEN a
         ELSE LET rest == eval_args(Tail(args), context, functions) IN
              IF Raised(rest)
              THEN Thrown(rest.exc, a.fu \o rest.fu, a.reads \o rest.reads)
              ELSE Returned(<<a.v>> \o rest.v, a.fu \o rest.fu,
                            a.reads \o rest.reads)

\* the loop over zip(node.ops, node.comparators) from link i on, left the
\* value of the previous operand
eval_comparators(left, ops, comparators, i, context, functions, acc) ==
    IF i > Len(ops) \/ i > Len(comparators)
    THEN Returned(Bool(TRUE), acc.fu, acc.reads)
    ELSE LET right == eval_node(comparators[i], context, functions)
             fu == acc.fu \o right.fu
             reads == acc.reads \o right.reads
         IN  IF Raised(right) THEN Thrown(right.exc, fu, reads)
             ELSE IF SideIsNone(right.v) THEN Returned(None, fu, reads)
             ELSE IF ops[i] \notin SAFE_OPERATORS
                  THEN Then(OperatorKeyError(ops[i]), fu, reads)
             ELSE LET c == ApplyCompareOp(ops[i], left, right.v) IN
                  IF Raised(c) THEN Then(c, fu, reads)
                  ELSE IF ~Truthy(c.v) THEN Returned(Bool(FALSE), fu, reads)
                  ELSE eval_comparators(NextLeft(left, right.v), ops,
                                        comparators, i + 1,
                                        context, functions,
                                        [fu |-> fu, reads |-> reads])

\* the loop over node.values of a BoolOp from operand i on: And stops at
\* the first falsy operand, Or at the first truthy one
eval_values(op, values, i, context, functions, acc) ==
    IF i > Len(values) THEN Returned(Bool(op = "And"), acc.fu, acc.reads)
    ELSE LET result == eval_node(values[i], context, functions)
             fu == acc.fu \o result.fu
             reads == acc.reads \o result.reads
         IN  IF Raised(result) THEN Thrown(result.exc, fu, reads)
             ELSE IF op = "And" /\ ~Truthy(result.v)
                  THEN Returned(Bool(FALSE), fu, reads)
             ELSE IF op = "Or" /\ Truthy(result.v)
                  THEN Returned(Bool(TRUE), fu, reads)
             ELSE eval_values(op, values, i + 1, context, functions,
                              [fu |-> fu, reads |-> reads])

CannotEvaluate(node) ==
    Raise("ValueError", <<"Cannot evaluate node type: ", node.t>>)

eval_node(node, context, functions) ==
    CASE node.t = "Constant" -> Returned(node.value, <<>>, <<>>)
      [] node.t = "Name" ->
           LET name == Lower(node.id) IN
           IF name \notin DOMAIN context
           THEN Thrown(<<"KeyError", name>>, <<name>>, <<>>)
           ELSE Returned(context[name], <<name>>, << <<name, context[name]>> >>)
      [] node.t = "BinOp" ->
           LET left == eval_node(node.left, context, functions) IN
           IF Raised(left) THEN left
           ELSE LET right == eval_node(node.right, context, functions)
                    fu == left.fu \o right.fu
                    reads == left.reads \o right.reads
                IN  IF Raised(right) THEN Thrown(right.exc, fu, reads)
                    ELSE IF EitherIsNone(left.v, right.v)
                         THEN Returned(None, fu, reads)
                    ELSE IF node.op \notin SAFE_OPERATORS
                         THEN Then(OperatorKeyError(node.op), fu, reads)
                    ELSE Then(ApplyBinOp(node.op, left.v, right.v), fu, reads)
      [] node.t = "UnaryOp" ->
           LET operand == eval_node(node.operand, context, functions) IN
           IF Raised(operand) THEN operand
           ELSE IF IsNone(operand.v) THEN operand
           ELSE IF node.op \notin SAFE_OPERATORS
                THEN Then(OperatorKeyError(node.op), operand.fu, operand.reads)
           ELSE Then(ApplyUnaryOp(node.op, operand.v), operand.fu, operand.reads)
      [] node.t = "Compare" ->
           LET left == eval_node(node.left, context, functions) IN
           IF Raised(left) THEN left
           ELSE IF SideIsNone(left.v) THEN left
           ELSE eval_comparators(left.v, node.ops, node.comparators, 1,
                                 context, functions,
                                 [fu |-> left.fu, reads |-> left.reads])
      [] node.t = "BoolOp" ->
           IF node.op \in {"And", "Or"}
           THEN eval_values(node.op, node.values, 1, context, functions,
                            [fu |-> <<>>, reads |-> <<>>])
           ELSE Then(CannotEvaluate(node), <<>>, <<>>)
      [] node.t = "Call" ->
           IF node.func.t # "Name"
           THEN Thrown(<<"AttributeError", <<"object has no attribute 'id'">> >>,
                       <<>>, <<>>)
           ELSE LET func_name == Upper(node.func.id) IN
                IF func_name \notin DOMAIN functions
                THEN Thrown(<<"KeyError", func_name>>, <<>>, <<>>)
                ELSE LET func == functions[func_name]
                         args == eval_args(node.args, context, functions)
                     IN  IF Raised(args) THEN args
                         ELSE IF func_name \in NULL_AWARE
                              THEN Then(CallFunction(func, args.v),
                                        args.fu, args.reads)
                         ELSE IF \E i \in 1..Len(args.v) : IsNone(args.v[i])
                              THEN Returned(None, args.fu, args.reads)
                         ELSE Then(CallFunction(func, args.v),
                                   args.fu, args.reads)
      [] node.t = "IfExp" ->
           LET test == eval_node(node.test, context, functions) IN
           IF Raised(test) THEN test
           ELSE LET branch == IF Truthy(test.v)
                              THEN eval_node(node.body, context, functions)
                              ELSE eval_node(node.orelse, context, functions)
                IN  [exc |-> branch.exc, v |-> branch.v,
                     fu |-> test.fu \o branch.fu,
                     reads |-> test.reads \o branch.reads]
      [] OTHER -> Then(CannotEvaluate(node), <<>>, <<>>)

(***************************************************************************)
(* Expression texts and ast.parse(expression, mode="eval").                *)
(*                                                                         *)
(* A text is given by what the parser makes of it: the tree of a           *)
(* well-formed expression; "malformed" for a text the grammar rejects      *)
(* ("revenue +"); "nested" for a well-formed text nested deeper than the   *)
(* interpreter's recursion limit ("1" followed by 3000 times "+1"), on     *)
(* which the parser gives up with RecursionError or MemoryError, depending *)
(* on the interpreter.                                                     *)
(***************************************************************************)
Text(tree) == [form |-> "expr", tree |-> tree]

MalformedText == [form |-> "malformed", tree |-> Constant(None)]

NestedText == [form |-> "nested", tree |-> Constant(None)]

\* the possible outcomes of ast.parse(expression, mode="eval"); v is tree.body
ast_parse(expression) ==
    CASE expression.form = "expr" -> {Ok(expression.tree)}
      [] expression.form = "malformed" ->
           {Raise("SyntaxError", <<"invalid syntax">>)}
      [] expression.form = "nested" ->
           {Raise("RecursionError",
                  <<"maximum recursion depth exceeded during ast construction">>),
            Raise("MemoryError", <<>>)}

\* the exception classes that are not subclasses of Exception
BaseExceptionOnly == {"KeyboardInterrupt", "SystemExit", "GeneratorExit"}

(***************************************************************************)
(* FormulaEngine.evaluate                                                  *)
(***************************************************************************)
\* error is <<>> for None, else <<prefix, str(e)>>.  reached and reads are
\* not fields of the dataclass: they record the local list fields_used as the
\* evaluation left it (the names of the references it reached) and the
\* context lookups it made.
FormulaResult(value, error, fields_used, reached, reads) ==
    [value |-> value, error |-> error, fields_used |-> fields_used,
     reached |-> reached, reads |-> reads]

\* {k.lower(): v for k, v in data.items() if v is not None}; the keys of a
\* record differ after lower-casing (they are column names)
LoweredNotNone(data) ==
    LET keys == {k \in DOMAIN data : ~IsNone(data[k])} IN
    [name \in {Lower(k) : k \in keys} |->
        data[CHOOSE k \in keys : Lower(k) = name]]

\* {k.lower(): v for k, v in computed_fields.items()}
Lowered(computed_fields) ==
    [name \in {Lower(k) : k \in DOMAIN computed_fields} |->
        computed_fields[CHOOSE k \in DOMAIN computed_fields : Lower(k) = name]]

\* a faulty merge, in which a field of the record wins over a computed field
MergedContextRawFirst(data, computed_fields) ==
    DictUpdate(Lowered(computed_fields), LoweredNotNone(data))

\* the context evaluate builds: the record's non-null fields, overlaid with
\* the computed fields
MergedContext(data, computed_fields) ==
    DictUpdate(LoweredNotNone(data), Lowered(computed_fields))

\* faulty except clauses, without the catch-all
HandleEvaluateWithoutCatchAll(exc, reached, reads) ==
    LET type == exc[1]
        failed(error) == FormulaResult(None, error, <<>>, reached, reads)
    IN  IF type = "ZeroDivisionError"
        THEN Ok(failed(<<"Division by zero", <<>> >>))
        ELSE IF IsValueError(type)
        THEN Ok(failed(<<"Math error: ", exc[2]>>))
        ELSE IF type = "KeyError"
        THEN Ok(failed(<<"Missing field: ", exc[2]>>))
        ELSE [exc |-> exc, v |-> failed(<<>>)]

\* faulty except clauses, without the one for KeyError and the catch-all
HandleEvaluateArithmeticOnly(exc, reached, reads) ==
    LET type == exc[1]
        failed(error) == FormulaResult(None, error, <<>>, reached, reads)
    IN  IF type = "ZeroDivisionError"
        THEN Ok(failed(<<"Division by zero", <<>> >>))
        ELSE IF IsValueError(type)
        THEN Ok(failed(<<"Math error: ", exc[2]>>))
        ELSE [exc |-> exc, v |-> failed(<<>>)]

\* faulty except clauses, which pass the local fields_used to the result
HandleEvaluateKeepingFields(exc, reached, reads) ==
    LET type == exc[1]
        failed(error) == FormulaResult(None, error, reached, reached, reads)
    IN  IF type = "ZeroDivisionError"
        THEN Ok(failed(<<"Division by zero", <<>> >>))
        ELSE IF IsValueError(type)
        THEN Ok(failed(<<"Math error: ", exc[2]>>))
        ELSE IF type = "KeyError"
        THEN Ok(failed(<<"Missing field: ", exc[2]>>))
        ELSE IF type \notin BaseExceptionOnly
        THEN Ok(failed(<<"Evaluation error: ", exc[2]>>))
        ELSE [exc |-> exc, v |-> failed(<<>>)]

\* the except clauses of evaluate, in order
HandleEvaluate(exc, reached, reads) ==
    LET type == exc[1]
        failed(error) == FormulaResult(None, error, <<>>, reached, reads)
    IN  IF type = "ZeroDivisionError"
        THEN Ok(failed(<<"Division by zero", <<>> >>))
        ELSE IF IsValueError(type)
        THEN Ok(failed(<<"Math error: ", exc[2]>>))
        ELSE IF type = "KeyError"
        THEN Ok(failed(<<"Missing field: ", exc[2]>>))
        ELSE IF type \notin BaseExceptionOnly
        THEN Ok(failed(<<"Evaluation error: ", exc[2]>>))
        ELSE [exc |-> exc, v |-> failed(<<>>)]

\* evaluate(expression, data, computed_fields) on an engine with these
\* functions, parsed one of the outcomes of ast.parse(expression): the
\* FormulaResult returned (exc = <<>>), or the exception it lets through
evaluate(parsed, data, computed_fields, functions) ==
    LET context == MergedContext(data, computed_fields) IN
    IF Raised(parsed) THEN HandleEvaluate(parsed.exc, <<>>, <<>>)
    ELSE LET r == eval_node(parsed.v, context, functions) IN
         IF Raised(r) THEN HandleEvaluate(r.exc, r.fu, r.reads)
         ELSE Ok(FormulaResult(r.v, <<>>, r.fu, r.fu, r.reads))

(***************************************************************************)
(* FormulaEngine.validate and _validate_node                               *)
(***************************************************************************)
Collected(errors, fields, funcs) ==
    [errors |-> errors, fields |-> fields, funcs |-> funcs]

\* a faulty accumulation, which keeps the errors found first and no others
BothStoppingAtFirstError(a, b) ==
    Collected(IF a.errors # <<>> THEN a.errors ELSE b.errors,
              a.fields \o b.fields, a.funcs \o b.funcs)

Both(a, b) ==
    Collected(a.errors \o b.errors, a.fields \o b.fields, a.funcs \o b.funcs)

RECURSIVE validate_node(_, _)
RECURSIVE validate_each(_, _)
RECURSIVE validate_links(_, _, _, _)

\* for value in nodes: self._validate_node(value, ...)
validate_each(nodes, functions) ==
    IF nodes = <<>> THEN Collected(<<>>, <<>>, <<>>)
    ELSE Both(validate_node(Head(nodes), functions),
              validate_each(Tail(nodes), functions))

\* for op, comparator in zip(node.ops, node.comparators), from link i on
validate_links(ops, comparators, i, functions) ==
    IF i > Len(ops) \/ i > Len(comparators) THEN Collected(<<>>, <<>>, <<>>)
    ELSE Both(Both(Collected(IF ops[i] \notin SAFE_OPERATORS
                             THEN << <<"Unsupported comparison: ", <<ops[i]>> >> >>
                             ELSE <<>>, <<>>, <<>>),
                   validate_node(comparators[i], functions)),
              validate_links(ops, comparators, i + 1, functions))

\* FUNDAMENTALS_FIELDS: the names of the columns of fundamentals
FUNDAMENTALS_FIELDS ==
    {<<"t","i","c","k","e","r">>,
     <<"a","s","_","o","f">>,
     <<"e","b","i","t">>,
     <<"e","n","t","e","r","p","r","i","s","e","_","v","a","l","u","e">>,
     <<"n","e","t","_","w","o","r","k","i","n","g","_","c","a","p","i","t","a","l">>,
     <<"r","e","v","e","n","u","e">>,
     <<"r","e","v","e","n","u","e","_","g","r","o","w","t","h","_","y","o","y">>,
     <<"g","r","o","s","s","_","m","a","r","g","i","n">>,
     <<"o","p","e","r","a","t","i","n","g","_","m","a","r","g","i","n">>,
     <<"n","e","t","_","m","a","r","g","i","n">>,
     <<"f","r","e","e","_","c","a","s","h","_","f","l","o","w">>,
     <<"f","c","f","_","y","i","e","l","d">>,
     <<"t","o","t","a","l","_","d","e","b","t">>,
     <<"t","o","t","a","l","_","e","q","u","i","t","y">>,
     <<"d","e","b","t","_","t","o","_","e","q","u","i","t","y">>,
     <<"i","n","t","e","r","e","s","t","_","c","o","v","e","r","a","g","e">>,
     <<"b","o","o","k","_","v","a","l","u","e">>,
     <<"t","a","n","g","i","b","l","e","_","b","o","o","k","_","v","a","l","u","e">>,
     <<"b","o","o","k","_","v","a","l","u","e","_","p","e","r","_","s","h","a","r","e">>,
     <<"m","a","r","k","e","t","_","c","a","p">>,
     <<"p","r","i","c","e">>,
     <<"s","h","a","r","e","s","_","o","u","t","s","t","a","n","d","i","n","g">>,
     <<"p","e","_","r","a","t","i","o">>,
     <<"p","b","_","r","a","t","i","o">>,
     <<"p","s","_","r","a","t","i","o">>,
     <<"e","v","_","t","o","_","e","b","i","t","d","a">>,
     <<"d","i","v","i","d","e","n","d","_","y","i","e","l","d">>,
     <<"p","a","y","o","u","t","_","r","a","t","i","o">>,
     <<"e","p","s">>,
     <<"e","p","s","_","g","r","o","w","t","h","_","y","o","y">>}

\* a faulty rule, for which a name outside the catalogue is an error
NameCollectedInCatalog(name) ==
    IF name \notin FUNDAMENTALS_FIELDS
    THEN Collected(<< <<"Unknown field: ", name>> >>, <<>>, <<>>)
    ELSE Collected(<<>>, <<name>>, <<>>)

\* what a field reference adds: its name, whether or not it is in the
\* catalogue (the branch for a name outside it, and outside the always
\* empty _computed_cache, is "pass")
NameCollected(name) ==
    IF name \notin FUNDAMENTALS_FIELDS
    THEN Collected(<<>>, <<name>>, <<>>)
    ELSE Collected(<<>>, <<name>>, <<>>)

\* a faulty callee check, which takes every name for a function
CalleeCollectedUnchecked(func_name, functions) ==
    Collected(<<>>, <<>>, <<func_name>>)

\* a faulty callee check, which lists only the functions it knows
CalleeCollectedWhenKnown(func_name, functions) ==
    IF func_name \notin DOMAIN functions
    THEN Collected(<< <<"Unknown function: ", func_name>> >>, <<>>, <<>>)
    ELSE Collected(<<>>, <<>>, <<func_name>>)

\* what the callee of a call of a bare name adds: an error if the name is
\* not a function of the engine, and the name in any case
CalleeCollected(func_name, functions) ==
    Collected(IF func_name \notin DOMAIN functions
              THEN << <<"Unknown function: ", func_name>> >>
              ELSE <<>>, <<>>, <<func_name>>)

\* what _validate_node appends to errors, fields and funcs
validate_node(node, functions) ==
    CASE node.t = "Constant" ->
           IF node.value.k \notin {"num", "bool", "none"}
           THEN Collected(<< <<"Unsupported constant type: ", <<node.value.k>> >> >>,
                          <<>>, <<>>)
           ELSE Collected(<<>>, <<>>, <<>>)
      [] node.t = "Name" -> NameCollected(Lower(node.id))
      [] node.t = "BinOp" ->
           Both(Collected(IF node.op \notin SAFE_OPERATORS
                          THEN << <<"Unsupported operator: ", <<node.op>> >> >>
                          ELSE <<>>, <<>>, <<>>),
                Both(validate_node(node.left, functions),
                     validate_node(node.right, functions)))
      [] node.t = "UnaryOp" ->
           Both(Collected(IF node.op \notin SAFE_OPERATORS
                          THEN << <<"Unsupported unary operator: ", <<node.op>> >> >>
                          ELSE <<>>, <<>>, <<>>),
                validate_node(node.operand, functions))
      [] node.t = "Compare" ->
           Both(validate_node(node.left, functions),
                validate_links(node.ops, node.comparators, 1, functions))
      [] node.t = "BoolOp" -> validate_each(node.values, functions)
      [] node.t = "Call" ->
           IF node.func.t = "Name"
           THEN Both(CalleeCollected(Upper(node.func.id), functions),
                     validate_each(node.args, functions))
           ELSE Collected(<< <<"Only simple function calls are supported", <<>> >> >>,
                          <<>>, <<>>)
      [] node.t = "IfExp" ->
           Both(validate_node(node.test, functions),
                Both(validate_node(node.body, functions),
                     validate_node(node.orelse, functions)))
      [] OTHER ->
           Collected(<< <<"Unsupported expression type: ", <<node.t>> >> >>,
                     <<>>, <<>>)

Range(seq) == {seq[i] : i \in 1..Len(seq)}

\* fields_used and functions_used are list(set(...)): their order is not
\* determined, and they are kept as sets
ValidationResult(errors, fields, funcs) ==
    [is_valid |-> Len(errors) = 0, errors |-> errors,
     fields_used |-> Range(fields), functions_used |-> Range(funcs)]

\* validate(expression), parsed one of the outcomes of ast.parse(expression):
\* the ValidationResult returned (exc = <<>>), or the exception it lets
\* through (only SyntaxError is caught)
validate(parsed, functions) ==
    IF Raised(parsed)
    THEN IF parsed.exc[1] = "SyntaxError"
         THEN Ok(ValidationResult(<< <<"Syntax error: ", parsed.exc[2]>> >>,
                                  <<>>, <<>>))
         ELSE [exc |-> parsed.exc, v |-> ValidationResult(<<>>, <<>>, <<>>)]
    ELSE LET c == validate_node(parsed.v, functions) IN
         Ok(ValidationResult(c.errors, c.fields, c.funcs))

\* FormulaEngine(additional_functions)
FormulaEngine(additional_functions) ==
    [functions |-> DictUpdate(DictOf(SAFE_FUNCTIONS), additional_functions),
     computed_cache |-> <<>>]

(***************************************************************************)
(* Names of the fundamentals columns and of the formulas of the model      *)
(***************************************************************************)
eps == <<"e","p","s">>

price == <<"p","r","i","c","e">>

book_value_per_share ==
    <<"b","o","o","k","_","v","a","l","u","e","_","p","e","r","_",
      "s","h","a","r","e">>

graham_number == <<"g","r","a","h","a","m","_","n","u","m","b","e","r">>

(***************************************************************************)
(* formula_definitions: the rows _seed_system_formulas inserts that        *)
(* depend on each other, and rows formula.create can add                   *)
(***************************************************************************)
FormulaRow(id, name, expression, category) ==
    [id |-> id, name |-> name, expression |-> expression,
     category |-> category]

\* "SQRT(22.5 * eps * book_value_per_share)"
GrahamNumber ==
    FormulaRow("formula:graham_number",
               <<"G","r","a","h","a","m"," ","N","u","m","b","e","r">>,
               Text(Call(Name(<<"S","Q","R","T">>),
                         << BinOp(BinOp(Constant(Num(45, 2)), "Mult", Name(eps)),
                                  "Mult", Name(book_value_per_share)) >>)),
               "margin_of_safety")

\* "(graham_number - price) / graham_number * 100"
MarginOfSafety ==
    FormulaRow("formula:margin_of_safety",
               <<"M","a","r","g","i","n"," ","o","f"," ","S","a","f","e","t","y">>,
               Text(BinOp(BinOp(BinOp(Name(graham_number), "Sub", Name(price)),
                                "Div", Name(graham_number)),
                          "Mult", Constant(IntV(100)))),
               "margin_of_safety")

system_formulas == {GrahamNumber, MarginOfSafety}

\* formula.create {"name": "Price", "expression": "price / eps"}: its id and
\* category are the defaults; its result is registered as price
CustomPrice ==
    FormulaRow("formula:custom:price", <<"P","r","i","c","e">>,
               Text(BinOp(Name(price), "Div", Name(eps))), "custom")

\* formula.create {"id": "formula:custom:gn2", "name": "graham number",
\* "expression": "eps + 1", "category": "margin_of_safety"}: a second formula
\* whose result is registered as graham_number
CustomGraham ==
    FormulaRow("formula:custom:gn2",
               <<"g","r","a","h","a","m"," ","n","u","m","b","e","r">>,
               Text(BinOp(Name(eps), "Add", Constant(IntV(1)))),
               "margin_of_safety")

\* formula.create {"name": "Upside", "expression": "Graham_Number / price",
\* "category": "torque"}
CustomUpside ==
    FormulaRow("formula:custom:upside", <<"U","p","s","i","d","e">>,
               Text(BinOp(Name(<<"G","r","a","h","a","m","_","N","u","m","b","e","r">>),
                          "Div", Name(price))),
               "torque")

\* formula.create {"name": "Discount", "expression": "price - graham_number"}
\* in the default category
CustomDiscount ==
    FormulaRow("formula:custom:discount",
               <<"D","i","s","c","o","u","n","t">>,
               Text(BinOp(Name(price), "Sub", Name(graham_number))), "custom")

CustomFormulas == {CustomPrice, CustomGraham, CustomUpside, CustomDiscount}

\* formula.create {"id": "formula:custom:price2", "name": "Price",
\* "expression": "price - eps"}: formula_definitions is keyed by id alone, so
\* this row stands beside CustomPrice under the same name
CustomPriceAgain ==
    FormulaRow("formula:custom:price2", <<"P","r","i","c","e">>,
               Text(BinOp(Name(price), "Sub", Name(eps))), "custom")

\* the lists of the elements of a set, each once
RECURSIVE Orderings(_)
Orderings(set) ==
    IF set = {} THEN {<<>>}
    ELSE UNION {{<<x>> \o rest : rest \in Orderings(set \ {x})} : x \in set}

\* the place of a category in ORDER BY category (the order of the strings)
CategoryRank(category) ==
    CASE category = "combined" -> 1
      [] category = "custom" -> 2
      [] category = "margin_of_safety" -> 3
      [] category = "quality" -> 4
      [] category = "torque" -> 5

\* the lists SELECT ... FROM formula_definitions ORDER BY category can
\* return: rows of one category come in any order
OrderByCategory(rows) ==
    {s \in Orderings(rows) :
        \A i, j \in DOMAIN s :
            i < j => CategoryRank(s[i].category) <= CategoryRank(s[j].category)}

\* formula_name.lower().replace(" ", "_")
SyntheticKey(formula_name) == Replace(Lower(formula_name), " ", "_")

\* row_computed[key] = value
DictSet(dict, key, value) == DictUpdate(dict, (key :> value))

\* INSERT INTO computed_metrics ... ON CONFLICT (ticker, as_of, metric_name)
\* DO UPDATE; a row of fundamentals has one as_of per ticker in the model
\* a faulty store, which empties the table before it inserts
UpsertAfterDelete(metrics, ticker, metric_name, formula_id, value) ==
    DictSet(<<>>, <<ticker, metric_name>>,
            [formula_id |-> formula_id, value |-> value])

Upsert(metrics, ticker, metric_name, formula_id, value) ==
    DictSet(metrics, <<ticker, metric_name>>,
            [formula_id |-> formula_id, value |-> value])

(***************************************************************************)
(* Bounds of the model                                                     *)
(***************************************************************************)
\* rows of fundamentals
NumRecords == 2

\* rows of formula_definitions added through formula.create
MaxCustom == 2

\* nesting depth of the expressions given to validate and evaluate, above the
\* nodes whose operands are constants and field references
MaxDepth == 2

\* calls made one after the other on one engine
MaxCalls == 3

\* runs of compute_all_formulas made one after the other on one database
MaxRuns == 2

\* requests made to /mcp/formula.create
MaxRequests == 2

(***************************************************************************)
(* State                                                                   *)
(***************************************************************************)
VARIABLES
    \* a call of validate or evaluate on an engine: its arguments and what
    \* came back
    engine, expression, data, computed_fields, outcome,
    \* the exception ast.parse raises on an over-nested text in this process
    interpreter,
    \* the tables
    formula_definitions, fundamentals, computed_metrics,
    \* compute_all_formulas: which call of it this is, its position, its
    \* locals and how it ended (<<>>, <<"return", count>> or
    \* <<"raise", exception>>)
    run, pc, formulas, row, fidx, row_computed, computed_count, returned,
    \* history of the run: one entry per engine.evaluate call of the loop,
    \* the INSERT statements executed, the assignments to row_computed
    log, inserts, registrations

call_vars == <<engine, expression, data, computed_fields, outcome, interpreter>>

table_vars == <<formula_definitions, fundamentals, computed_metrics>>

batch_vars ==
    <<run, pc, formulas, row, fidx, row_computed, computed_count, returned,
      log, inserts, registrations>>

vars == <<call_vars, table_vars, batch_vars>>

\* the exceptions ast.parse raises on an over-nested text, one per process
Interpreters == {"RecursionError", "MemoryError"}

\* the outcomes of ast.parse(expression, mode="eval") in this process
ast_parse_here(source) ==
    {parsed \in ast_parse(source) :
        Raised(parsed) => parsed.exc[1] \in {"SyntaxError", interpreter}}

\* outcome of a call: exc and v as above; fault is the exception raised inside
\* the call's try block, <<>> if there was none
NoOutcome == [call |-> "none", exc |-> <<>>, v |-> None, fault |-> <<>>]

\* the values of the columns of the rows of fundamentals in the model
\* (eps and price; book_value_per_share is 5): a complete row, a row with a
\* NULL eps, one with eps 0 (a Graham Number of 0)
FundamentalsRow(e, p) ==
    (eps :> e) @@ (book_value_per_share :> IntV(5)) @@ (price :> p)

FundamentalsRows ==
    {FundamentalsRow(IntV(2), IntV(10)), FundamentalsRow(None, IntV(10)),
     FundamentalsRow(IntV(0), IntV(10))}

NoCall ==
    /\ engine = FormulaEngine(<<>>)
    /\ expression = Text(Constant(None))
    /\ data = <<>>
    /\ computed_fields = <<>>
    /\ outcome = NoOutcome
    /\ interpreter \in Interpreters

\* the tables are seeded and filled, no batch has run
Init ==
    /\ NoCall
    /\ \E custom \in SUBSET CustomFormulas :
          /\ Cardinality(custom) <= MaxCustom
          /\ formula_definitions = system_formulas \cup custom
    /\ fundamentals \in [1..NumRecords -> FundamentalsRows]
    /\ computed_metrics = <<>>
    /\ run = 1
    /\ pc = "start"
    /\ formulas = <<>>
    /\ row = 0
    /\ fidx = 1
    /\ row_computed = <<>>
    /\ computed_count = 0
    /\ returned = <<>>
    /\ log = <<>>
    /\ inserts = <<>>
    /\ registrations = <<>>

(***************************************************************************)
(* compute_all_formulas(conn), one action per step of its loops            *)
(***************************************************************************)
\* lines 446-464: the formulas in the order the query returns them, the
\* engine, the counter, the rows
FetchFormulas ==
    /\ pc = "start"
    /\ formulas' \in OrderByCategory(formula_definitions)
    /\ computed_count' = 0
    /\ pc' = "rows"
    /\ UNCHANGED <<call_vars, table_vars, run, row, fidx, row_computed,
                   returned, log, inserts, registrations>>

InnerLoopOver == pc = "rows" \/ (pc = "formulas" /\ fidx > Len(formulas))

\* a faulty loop, in which row_computed is created once, before the rows
NextRowKeepingComputed ==
    /\ InnerLoopOver
    /\ row < NumRecords
    /\ row' = row + 1
    /\ fidx' = 1
    /\ pc' = "formulas"
    /\ UNCHANGED <<call_vars, table_vars, run, formulas, computed_count,
                   returned, log, inserts, registrations, row_computed>>

\* lines 466-472: the next row, with an empty row_computed
NextRow ==
    /\ InnerLoopOver
    /\ row < NumRecords
    /\ row' = row + 1
    /\ row_computed' = <<>>
    /\ fidx' = 1
    /\ pc' = "formulas"
    /\ UNCHANGED <<call_vars, table_vars, run, formulas, computed_count,
                   returned, log, inserts, registrations>>

\* a faulty loop body, in which the counter is incremented outside the if
StoreResultCountingAll(formula, result) ==
    /\ computed_count' = computed_count + 1
    /\ IF ~IsNone(result.value)
       THEN /\ computed_metrics' =
                  Upsert(computed_metrics, row, formula.name, formula.id,
                         result.value)
            /\ row_computed' =
                  DictSet(row_computed, SyntheticKey(formula.name),
                          result.value)
            /\ inserts' = Append(inserts, <<row, formula.name, result.value>>)
            /\ registrations' =
                  Append(registrations, <<row, SyntheticKey(formula.name)>>)
       ELSE UNCHANGED <<computed_metrics, row_computed, inserts, registrations>>

\* the body of the inner loop once engine.evaluate has returned result
StoreResult(formula, result) ==
    IF ~IsNone(result.value)
    THEN /\ computed_metrics' =
               Upsert(computed_metrics, row, formula.name, formula.id,
                      result.value)
         /\ row_computed' =
               DictSet(row_computed, SyntheticKey(formula.name), result.value)
         /\ computed_count' = computed_count + 1
         /\ inserts' = Append(inserts, <<row, formula.name, result.value>>)
         /\ registrations' =
               Append(registrations, <<row, SyntheticKey(formula.name)>>)
    ELSE UNCHANGED <<computed_metrics, row_computed, computed_count,
                     inserts, registrations>>

\* lines 474-490: one formula on the current row
EvaluateFormula ==
    /\ pc = "formulas"
    /\ fidx <= Len(formulas)
    /\ \E parsed \in ast_parse_here(formulas[fidx].expression) :
          LET out == evaluate(parsed, fundamentals[row], row_computed,
                              FormulaEngine(<<>>).functions)
          IN  IF Raised(out)
              THEN /\ pc' = "raised"
                   /\ returned' = <<"raise", out.exc>>
                   /\ UNCHANGED <<computed_metrics, row_computed,
                                  computed_count, inserts, registrations,
                                  fidx, log>>
              ELSE /\ StoreResult(formulas[fidx], out.v)
                   /\ log' = Append(log, [run |-> run, row |-> row,
                                          pos |-> fidx,
                                          formula |-> formulas[fidx],
                                          before |-> row_computed,
                                          result |-> out.v])
                   /\ fidx' = fidx + 1
                   /\ UNCHANGED <<pc, returned>>
    /\ UNCHANGED <<call_vars, formula_definitions, fundamentals, run, formulas,
                   row>>

\* line 492: return computed_count
Return ==
    /\ InnerLoopOver
    /\ row = NumRecords
    /\ pc' = "done"
    /\ returned' = <<"return", computed_count>>
    /\ UNCHANGED <<call_vars, table_vars, run, formulas, row, fidx,
                   row_computed, computed_count, log, inserts, registrations>>

Next == FetchFormulas \/ NextRow \/ EvaluateFormula \/ Return

Spec == Init /\ [][Next]_vars

(***************************************************************************)
(* compute_all_formulas called again on the same database: the rows of     *)
(* formula_definitions and fundamentals are those of the run before, and   *)
(* computed_metrics is what that run left.                                 *)
(***************************************************************************)
InitRuns ==
    /\ NoCall
    /\ \E custom \in SUBSET {CustomPrice, CustomPriceAgain} :
          /\ Cardinality(custom) <= MaxCustom
          /\ formula_definitions = system_formulas \cup custom
    /\ fundamentals \in [1..NumRecords -> FundamentalsRows]
    /\ computed_metrics = <<>>
    /\ run = 1
    /\ pc = "start"
    /\ formulas = <<>>
    /\ row = 0
    /\ fidx = 1
    /\ row_computed = <<>>
    /\ computed_count = 0
    /\ returned = <<>>
    /\ log = <<>>
    /\ inserts = <<>>
    /\ registrations = <<>>

\* lines 434-464 entered once more after line 492 returned: the locals are
\* new, the tables are kept
RunAgain ==
    /\ pc = "done"
    /\ run < MaxRuns
    /\ run' = run + 1
    /\ pc' = "start"
    /\ formulas' = <<>>
    /\ row' = 0
    /\ fidx' = 1
    /\ row_computed' = <<>>
    /\ computed_count' = 0
    /\ returned' = <<>>
    /\ UNCHANGED <<call_vars, table_vars, log, inserts, registrations>>

NextRuns == Next \/ RunAgain

SpecRuns == InitRuns /\ [][NextRuns]_vars

(***************************************************************************)
(* Calls of FormulaEngine.validate and FormulaEngine.evaluate              *)
(***************************************************************************)
\* operands: None, 0, 2 and a reference to the field eps, written Eps
Leaves ==
    {Constant(None), Constant(IntV(0)), Constant(IntV(2)), Name(<<"E","p","s">>)}

\* a ** b parses to Pow, a ^ b to BitXor, a // b to FloorDiv; ^, //, ~ and
\* "in" have no entry in SAFE_OPERATORS
BinaryOps ==
    {"Add", "Sub", "Mult", "Div", "Pow", "Mod", "FloorDiv", "BitXor"}

UnaryOps == {"USub", "UAdd", "Not", "Invert"}

CompareOps == {"Lt", "Eq", "In"}

\* FOO has no entry in SAFE_FUNCTIONS; nullif takes two arguments
CalledNames ==
    {<<"s","q","r","t">>, <<"I","S","N","U","L","L">>, <<"S","U","M">>,
     <<"C","O","A","L","E","S","C","E">>, <<"F","O","O">>,
     <<"n","u","l","l","i","f">>}

\* the expressions of one node over the operands: every node class of
\* _eval_node, a method call (Eps.b(2)), an attribute (Eps.b), a str constant
FlatTrees ==
    Leaves
    \cup {BinOp(l, op, r) : l \in Leaves, op \in BinaryOps, r \in Leaves}
    \cup {UnaryOp(op, x) : op \in UnaryOps, x \in Leaves}
    \cup {Compare(l, <<op>>, <<r>>) : l \in Leaves, op \in CompareOps,
                                      r \in {Constant(IntV(2)), Constant(None)}}
    \cup {Compare(Constant(IntV(0)), <<"Lt", "Lt">>, <<Constant(IntV(2)), x>>) :
            x \in Leaves}
    \cup {BoolOp(op, <<l, r>>) : op \in {"And", "Or"}, l \in Leaves,
                                r \in {Constant(IntV(2)), Name(<<"E","p","s">>)}}
    \cup {Call(Name(f), <<x>>) : f \in CalledNames, x \in Leaves}
    \cup {IfExp(x, Constant(IntV(2)), Name(<<"E","p","s">>)) : x \in Leaves}
    \cup {Call(Attribute(Name(<<"E","p","s">>), "b"), <<Constant(IntV(2))>>),
          Attribute(Name(<<"E","p","s">>), "b"), Constant(Str)}

\* an expression inside a larger one: 2 * e, -e, ISNULL(e)
Wrapped(e) ==
    {BinOp(Constant(IntV(2)), "Mult", e), UnaryOp("USub", e),
     Call(Name(<<"I","S","N","U","L","L">>), <<e>>)}

\* expressions with several faults: FOO("s" // Eps), Eps.b(Eps // 2),
\* Foo(0, 2), (Eps.b) + (~2); X + x * Eps, where x is no
\* column; 2 < 0 < Eps and Eps < 0 < 2; calls of COALESCE, IF and NULLIF with
\* the arguments they take; IF(2, 0, y) and IF(0, 2 / 0, Eps); SUM, AVG, MAX
\* and MIN of one and of two numbers; y if ... else 0, where y is no field
NestedTrees ==
    {Call(Name(<<"F","O","O">>),
          <<BinOp(Constant(Str), "FloorDiv", Name(<<"E","p","s">>))>>),
     Call(Attribute(Name(<<"E","p","s">>), "b"),
          <<BinOp(Name(<<"E","p","s">>), "FloorDiv", Constant(IntV(2)))>>),
     Call(Name(<<"F","o","o">>), <<Constant(IntV(0)), Constant(IntV(2))>>),
     BinOp(Attribute(Name(<<"E","p","s">>), "b"), "Add",
           UnaryOp("Invert", Constant(IntV(2)))),
     BinOp(Name(<<"X">>), "Add",
           BinOp(Name(<<"x">>), "Mult", Name(<<"E","p","s">>))),
     Compare(Constant(IntV(2)), <<"Lt", "Lt">>,
             <<Constant(IntV(0)), Name(<<"E","p","s">>)>>),
     Compare(Name(<<"E","p","s">>), <<"Lt", "Lt">>,
             <<Constant(IntV(0)), Constant(IntV(2))>>)}
    \cup {Call(Name(<<"C","O","A","L","E","S","C","E">>),
               <<Constant(None), Name(<<"E","p","s">>), Constant(IntV(2))>>),
          Call(Name(<<"C","O","A","L","E","S","C","E">>), <<>>)}
    \cup {Call(Name(<<"I","F">>), <<x, Constant(IntV(0)), Constant(IntV(2))>>) :
            x \in Leaves \cup {Constant(Bool(TRUE)), Constant(Bool(FALSE))}}
    \cup {Call(Name(<<"I","F">>),
               <<Constant(IntV(2)), Constant(IntV(0)), Name(<<"y">>)>>),
          Call(Name(<<"I","F">>),
               <<Constant(IntV(0)),
                 BinOp(Constant(IntV(2)), "Div", Constant(IntV(0))),
                 Name(<<"E","p","s">>)>>)}
    \cup {Call(Name(f), args) :
            f \in {<<"S","U","M">>, <<"A","V","G">>, <<"M","A","X">>,
                   <<"M","I","N">>},
            args \in {<<Constant(IntV(2))>>,
                      <<Constant(IntV(0)), Constant(IntV(2))>>}}
    \cup {Call(Name(<<"N","U","L","L","I","F">>), <<x, Constant(IntV(2))>>) :
            x \in Leaves}
    \cup {IfExp(x, Name(<<"y">>), Constant(IntV(0))) : x \in Leaves}

RECURSIVE Trees(_)
Trees(depth) ==
    IF depth <= 1 THEN FlatTrees
    ELSE LET inner == Trees(depth - 1) IN
         inner \cup UNION {Wrapped(e) : e \in inner}

Expressions ==
    {Text(tree) : tree \in Trees(MaxDepth) \cup NestedTrees}
    \cup {MalformedText, NestedText}

\* the record: without the column, with a NULL in it, with -4 in it
DataChoices ==
    << <<>>, (<<"E","P","S">> :> None), (<<"E","P","S">> :> IntV(-4)) >>

\* computed_fields: none, or a formula named eps that came out None
ComputedChoices == << <<>>, (eps :> None) >>

\* additional_functions: none, or the caller's lambda x: x is None under
\* the key "FOO" or under the key "foo"
FunctionChoices ==
    << <<>>, (<<"F","O","O">> :> "lambda isnull"),
       (<<"f","o","o">> :> "lambda isnull") >>

\* an engine, the arguments of a call, and a database nothing has run on
InitEval ==
    /\ \E i \in DOMAIN FunctionChoices :
          engine = FormulaEngine(FunctionChoices[i])
    /\ expression \in Expressions
    /\ \E i \in DOMAIN DataChoices : data = DataChoices[i]
    /\ \E i \in DOMAIN ComputedChoices : computed_fields = ComputedChoices[i]
    /\ outcome = NoOutcome
    /\ interpreter \in Interpreters
    /\ formula_definitions = system_formulas
    /\ fundamentals = <<>>
    /\ computed_metrics = <<>>
    /\ run = 1
    /\ pc = "start"
    /\ formulas = <<>>
    /\ row = 0
    /\ fidx = 1
    /\ row_computed = <<>>
    /\ computed_count = 0
    /\ returned = <<>>
    /\ log = <<>>
    /\ inserts = <<>>
    /\ registrations = <<>>

\* the exception raised inside the try block of evaluate, <<>> if none
FaultOf(parsed, record, computed, functions) ==
    IF Raised(parsed) THEN parsed.exc
    ELSE eval_node(parsed.v, MergedContext(record, computed), functions).exc

\* engine.evaluate(expression, data, computed_fields)
Evaluate ==
    /\ outcome.call = "none"
    /\ \E parsed \in ast_parse_here(expression) :
          LET r == evaluate(parsed, data, computed_fields, engine.functions) IN
          outcome' = [call |-> "evaluate", exc |-> r.exc, v |-> r.v,
                      fault |-> FaultOf(parsed, data, computed_fields,
                                        engine.functions)]
    /\ UNCHANGED <<engine, expression, data, computed_fields, interpreter,
                   table_vars, batch_vars>>

\* engine.validate(expression)
Validate ==
    /\ outcome.call = "none"
    /\ \E parsed \in ast_parse_here(expression) :
          LET r == validate(parsed, engine.functions) IN
          outcome' = [call |-> "validate", exc |-> r.exc, v |-> r.v,
                      fault |-> parsed.exc]
    /\ UNCHANGED <<engine, expression, data, computed_fields, interpreter,
                   table_vars, batch_vars>>

NextEval == Evaluate \/ Validate

SpecEval == InitEval /\ [][NextEval]_vars

(***************************************************************************)
(* Several calls, one after the other, on one engine                       *)
(***************************************************************************)
\* the texts of the calls: one that reads a field, one nested too deep
CallExpressions ==
    {Text(BinOp(Name(<<"E","p","s">>), "Mult", Constant(IntV(2)))), NestedText}

\* the records of the calls: without the column, with -4 in it
CallData == << <<>>, (<<"E","P","S">> :> IntV(-4)) >>

\* an engine nothing has been called on; log records the calls made on it
InitCalls ==
    /\ NoCall
    /\ formula_definitions = system_formulas
    /\ fundamentals = <<>>
    /\ computed_metrics = <<>>
    /\ run = 1
    /\ pc = "start"
    /\ formulas = <<>>
    /\ row = 0
    /\ fidx = 1
    /\ row_computed = <<>>
    /\ computed_count = 0
    /\ returned = <<>>
    /\ log = <<>>
    /\ inserts = <<>>
    /\ registrations = <<>>

\* a call with these arguments has come back: the engine and the maps as
\* they were before and as they are after it
Called(call, e, d, c) ==
    /\ Len(log) < MaxCalls
    /\ expression' = e
    /\ log' = Append(log,
                     [call |-> call, expression |-> e, data |-> d,
                      computed_fields |-> c,
                      result |-> [exc |-> outcome'.exc, v |-> outcome'.v],
                      engine_before |-> engine, engine_after |-> engine',
                      data_after |-> data',
                      computed_fields_after |-> computed_fields'])
    /\ UNCHANGED <<interpreter, table_vars, run, pc, formulas, row, fidx,
                   row_computed, computed_count, returned, inserts,
                   registrations>>

\* a faulty evaluate, which keeps each text's first result in _computed_cache
\* and gives it back for that text from then on
CallEvaluateCaching ==
    \E e \in CallExpressions, i \in DOMAIN CallData,
       j \in DOMAIN ComputedChoices :
       \E parsed \in ast_parse_here(e) :
          LET d == CallData[i]
              c == ComputedChoices[j]
              r == IF e \in DOMAIN engine.computed_cache
                   THEN engine.computed_cache[e]
                   ELSE evaluate(parsed, d, c, engine.functions)
          IN  /\ outcome' = [call |-> "evaluate", exc |-> r.exc, v |-> r.v,
                             fault |-> <<>>]
              /\ engine' = [engine EXCEPT
                               !.computed_cache = @ @@ (e :> r)]
              /\ data' = d
              /\ computed_fields' = c
              /\ Called("evaluate", e, d, c)

\* engine.evaluate(e, d, c): lines 233-235 build the context in a new
\* dictionary, lines 237-254 assign to locals only
CallEvaluate ==
    \E e \in CallExpressions, i \in DOMAIN CallData,
       j \in DOMAIN ComputedChoices :
       \E parsed \in ast_parse_here(e) :
          LET d == CallData[i]
              c == ComputedChoices[j]
              r == evaluate(parsed, d, c, engine.functions)
          IN  /\ outcome' = [call |-> "evaluate", exc |-> r.exc, v |-> r.v,
                             fault |-> FaultOf(parsed, d, c, engine.functions)]
              /\ engine' = engine
              /\ data' = d
              /\ computed_fields' = c
              /\ Called("evaluate", e, d, c)

\* engine.validate(e): reads self.functions and self._computed_cache
CallValidate ==
    \E e \in CallExpressions :
       \E parsed \in ast_parse_here(e) :
          LET r == validate(parsed, engine.functions) IN
          /\ outcome' = [call |-> "validate", exc |-> r.exc, v |-> r.v,
                         fault |-> parsed.exc]
          /\ engine' = engine
          /\ UNCHANGED <<data, computed_fields>>
          /\ Called("validate", e, <<>>, <<>>)

NextCalls == CallEvaluate \/ CallValidate

SpecCalls == InitCalls /\ [][NextCalls]_vars

(***************************************************************************)
(* main.py create_formula, the handler of /mcp/formula.create              *)
(***************************************************************************)
\* a string of the characters of a name
RECURSIVE Join(_)
Join(chars) == IF chars = <<>> THEN "" ELSE Head(chars) \o Join(Tail(chars))

\* an expression that is missing from the payload, or empty
NoText == [form |-> "empty", tree |-> Constant(None)]

\* the payloads of the requests: "id" missing ("") or the id of a seeded
\* formula; "name" missing (<<>>) or given; "expression" missing, "price /
\* eps", "FOO(2) ^ 2", "revenue +", or nested too deep
Payloads ==
    [id : {"", "formula:graham_number"},
     name : {<<>>, <<"P","r","i","c","e">>,
             <<"G","r","a","h","a","m"," ","N","u","m","b","e","r">>},
     expression : {NoText,
                   Text(BinOp(Name(price), "Div", Name(eps))),
                   Text(BinOp(Call(Name(<<"F","O","O">>), <<Constant(IntV(2))>>),
                              "BitXor", Constant(IntV(2)))),
                   MalformedText, NestedText}]

\* f"formula:custom:{name.lower().replace(' ', '_')}"
DefaultFormulaId(name) == "formula:custom:" \o Join(SyntheticKey(name))

\* INSERT INTO formula_definitions ... ON CONFLICT (id) DO UPDATE
UpsertFormula(rows, new) == {r \in rows : r.id # new.id} \cup {new}

\* raise HTTPException(status_code=400, detail=detail)
BadRequest(detail) == [raised |-> "HTTPException", detail |-> detail]

\* a faulty test of the validation, which finds every expression valid
NothingInvalid(validation) == FALSE

\* not validation.is_valid
InvalidExpression(validation) == ~validation.is_valid

\* a database with the seeded formulas, no request made; log records the
\* requests
InitCreate ==
    /\ NoCall
    /\ formula_definitions = system_formulas
    /\ fundamentals = <<>>
    /\ computed_metrics = <<>>
    /\ run = 1
    /\ pc = "start"
    /\ formulas = <<>>
    /\ row = 0
    /\ fidx = 1
    /\ row_computed = <<>>
    /\ computed_count = 0
    /\ returned = <<>>
    /\ log = <<>>
    /\ inserts = <<>>
    /\ registrations = <<>>

\* the request with this payload is over: what it returned or raised, and
\* formula_definitions before and after it
Requested(payload, response) ==
    /\ Len(log) < MaxRequests
    /\ log' = Append(log, [payload |-> payload, response |-> response,
                           before |-> formula_definitions,
                           after |-> formula_definitions'])
    /\ UNCHANGED <<call_vars, fundamentals, computed_metrics, run, pc,
                   formulas, row, fidx, row_computed, computed_count, returned,
                   inserts, registrations>>

\* lines 826-832: name and expression are required
CreateFormulaIncomplete ==
    \E payload \in Payloads :
       /\ payload.name = <<>> \/ payload.expression = NoText
       /\ formula_definitions' = formula_definitions
       /\ Requested(payload, BadRequest(<<"name and expression are required">>))

\* lines 834-864: the expression is validated on a new engine, then the row
\* is written
CreateFormula ==
    \E payload \in Payloads :
       /\ payload.name # <<>>
       /\ payload.expression # NoText
       /\ \E parsed \in ast_parse_here(payload.expression) :
             LET validation == validate(parsed, FormulaEngine(<<>>).functions)
                 formula_id == IF payload.id # "" THEN payload.id
                               ELSE DefaultFormulaId(payload.name)
             IN  IF Raised(validation)
                 THEN /\ formula_definitions' = formula_definitions
                      /\ Requested(payload, [raised |-> validation.exc[1],
                                             detail |-> validation.exc[2]])
                 ELSE IF InvalidExpression(validation.v)
                 THEN /\ formula_definitions' = formula_definitions
                      /\ Requested(payload, BadRequest(<<"Invalid expression: ", validation.v.errors>>))
                 ELSE /\ formula_definitions' =
                            UpsertFormula(formula_definitions,
                                          FormulaRow(formula_id, payload.name,
                                                     payload.expression,
                                                     "custom"))
                      /\ Requested(payload,
                                   [raised |-> "",
                                    id |-> formula_id,
                                    name |-> payload.name,
                                    expression |-> payload.expression,
                                    fields_used |-> validation.v.fields_used,
                                    functions_used |->
                                        validation.v.functions_used])

NextCreate == CreateFormulaIncomplete \/ CreateFormula

SpecCreate == InitCreate /\ [][NextCreate]_vars

(***************************************************************************)
(* The run seen through its history                                        *)
(***************************************************************************)
LogEntries == {log[i] : i \in DOMAIN log}

\* compute_all_formulas has returned or raised
Finished == pc \in {"done", "raised"}

\* the value formula number j of the list got on row r
ValueAt(r, j) ==
    (CHOOSE e \in LogEntries : e.row = r /\ e.pos = j).result.value

\* the formulas evaluated before entry e on its row whose result, not null,
\* was to be registered under the name n
Providers(e, n) ==
    {j \in 1..(e.pos - 1) :
        /\ SyntheticKey(formulas[j].name) = n
        /\ \E p \in LogEntries :
              p.row = e.row /\ p.pos = j /\ ~IsNone(p.result.value)}

Latest(positions) == CHOOSE j \in positions : \A k \in positions : k <= j

FormulaKeys == {SyntheticKey(formulas[j].name) : j \in DOMAIN formulas}

\* the values the lookups of the name n returned during the evaluation of e
ReadsOf(e, n) ==
    {e.result.reads[k][2] :
        k \in {k \in DOMAIN e.result.reads : e.result.reads[k][1] = n}}

\* the record of the row has a value, not null, in the column n
RawPresent(r, n) ==
    n \in DOMAIN fundamentals[r] /\ ~IsNone(fundamentals[r][n])

MissingField(e, n) == e.result.error = <<"Missing field: ", n>>

\* the names an expression refers to as fields
References(formula) ==
    LET parsed == CHOOSE t \in ast_parse(formula.expression) : TRUE IN
    IF Raised(parsed) THEN {}
    ELSE Range(validate_node(parsed.v, FormulaEngine(<<>>).functions).fields)

(***************************************************************************)
(* Claims on compute_all_formulas                                          *)
(***************************************************************************)

\* C1 (as amended): a formula B that looks up the normalized name n of a
\* formula reads, on record r, the value computed on r by the last formula
\* named n that was evaluated before B on r with a result that is not null
\* (the value of A itself unless a formula of the same normalized name came
\* between A and B); it does not miss the field then; and when no formula
\* named n has yet a value on r, B reads nothing but the column n of r, if
\* there is one: no value of another record, no value of a later formula.
\* (Stated of the history of a run that is over, like the claims below.)
C1_ReadsLatestProviderOfSameRecord ==
    Finished => \A e \in LogEntries : \A n \in FormulaKeys :
        LET providers == Providers(e, n) IN
        IF providers # {}
        THEN /\ ReadsOf(e, n) \subseteq {ValueAt(e.row, Latest(providers))}
             /\ ~MissingField(e, n)
        ELSE ReadsOf(e, n) # {} =>
                /\ RawPresent(e.row, n)
                /\ ReadsOf(e, n) = {fundamentals[e.row][n]}

\* C1 (as stated): whenever A, named n, was evaluated before B on r with a
\* value that is not null, B's lookups of n return exactly that value
C1_ReadsEveryEarlierProvider ==
    Finished => \A e \in LogEntries : \A n \in FormulaKeys :
        \A j \in Providers(e, n) : ReadsOf(e, n) \subseteq {ValueAt(e.row, j)}

\* C1 witness: the run is over; on one row Margin of Safety read the Graham
\* Number computed on that row, and on a later row, where no formula of that
\* name had a value, the same formula missed the field
C1_Witness ==
    /\ pc = "done"
    /\ \E e1, e2 \in LogEntries :
          /\ e1.row < e2.row
          /\ e1.pos = e2.pos
          /\ formulas[e1.pos] = MarginOfSafety
          /\ Providers(e1, graham_number) # {}
          /\ ReadsOf(e1, graham_number) # {}
          /\ Providers(e2, graham_number) = {}
          /\ MissingField(e2, graham_number)

\* C2: the formulas are evaluated in dependency order: a formula that
\* refers to the registered name of another formula comes after it in the
\* list, and on no record does a formula miss a field that a formula of the
\* list computes, not null, on that record
C2_DependencyOrder ==
    /\ \A i, j \in DOMAIN formulas :
          (i # j /\ SyntheticKey(formulas[i].name) \in References(formulas[j]))
              => i < j
    /\ Finished => \A e, p \in LogEntries :
          (p.row = e.row /\ ~IsNone(p.result.value))
              => ~MissingField(e, SyntheticKey(formulas[p.pos].name))

EvaluatedPairs == {<<e.row, e.pos>> : e \in LogEntries}

FailingStep ==
    /\ Len(log') = Len(log) + 1
    /\ log'[Len(log')].result.error # <<>>

\* C3: a formula that fails on a record does not end the run: the step
\* leaves the metrics, the synthetic fields of the row and the counter as
\* they were and goes on to the next formula; the run raises nothing, and
\* when it is over every formula has been evaluated once on every record
C3_FailureDoesNotAbort ==
    /\ [][FailingStep =>
            /\ UNCHANGED <<computed_metrics, row_computed, computed_count,
                           inserts, registrations>>
            /\ pc' = "formulas"
            /\ fidx' = fidx + 1]_vars
    /\ [](pc # "raised")
    /\ [](pc = "done" =>
            /\ EvaluatedPairs = (1..NumRecords) \X (DOMAIN formulas)
            /\ Len(log) = NumRecords * Len(formulas))

\* C3 witness: the run is over, a formula failed on the first record for a
\* missing field and another by a division by zero, and formulas evaluated
\* after them got values
C3_Witness ==
    /\ pc = "done"
    /\ \E e1, e2, e3 \in LogEntries :
          /\ e1.row = 1 /\ e1.result.error # <<>>
          /\ e1.result.error[1] = "Missing field: "
          /\ e2.result.error = <<"Division by zero", <<>> >>
          /\ e3.row >= e2.row /\ (e3.row = e2.row => e3.pos > e2.pos)
          /\ ~IsNone(e3.result.value)

NonNullEvaluations == {i \in DOMAIN log : ~IsNone(log[i].result.value)}

\* C4: the counter, and at the end the integer returned, is the number of
\* evaluations of the loop whose value is not null, the number of INSERTs
\* executed and the number of assignments to row_computed
C4_CountIsNonNullResults ==
    /\ pc # "start" =>
          /\ computed_count = Cardinality(NonNullEvaluations)
          /\ computed_count = Len(inserts)
          /\ computed_count = Len(registrations)
    /\ pc = "done" => returned = <<"return", computed_count>>

\* C4 witness: a run that returned a count between 0 and the number of pairs
C4_Witness ==
    /\ pc = "done"
    /\ returned[2] > 0
    /\ returned[2] < Len(log)

\* C5: a lookup of a name that is a column of the record returns the value a
\* formula registered under that name earlier on the same record, when there
\* is one (the last), and the value of the column otherwise: before the
\* formula ran, on records where it has no value, and never a value
\* registered on another record
C5_SyntheticOverridesRaw ==
    Finished => \A e \in LogEntries : \A n \in DOMAIN fundamentals[e.row] :
        LET providers == Providers(e, n) IN
        /\ ReadsOf(e, n) \subseteq
              {IF providers # {} THEN ValueAt(e.row, Latest(providers))
               ELSE fundamentals[e.row][n]}
        /\ (providers # {} \/ RawPresent(e.row, n)) => ~MissingField(e, n)

\* C5 witness: on one record the formula Price got a value other than the
\* price column, a formula before it read the column and one after it read
\* the synthetic value; on another record, where Price has no value, the
\* column was read
C5_Witness ==
    \E e1, e2, e3 \in LogEntries :
        /\ e1.row = e2.row /\ e1.row # e3.row
        /\ RawPresent(e1.row, price) /\ RawPresent(e3.row, price)
        /\ Providers(e1, price) = {} /\ Providers(e2, price) # {}
        /\ Providers(e3, price) = {}
        /\ ReadsOf(e1, price) = {fundamentals[e1.row][price]}
        /\ ReadsOf(e2, price) = {ValueAt(e2.row, Latest(Providers(e2, price)))}
        /\ ReadsOf(e2, price) # ReadsOf(e1, price)
        /\ ReadsOf(e3, price) = {fundamentals[e3.row][price]}
        /\ \E j \in 1..(e3.pos - 1) : formulas[j] = CustomPrice

(***************************************************************************)
(* A call of evaluate or validate seen from its caller                     *)
(***************************************************************************)
\* evaluate was called on an expression that parses
Evaluated == outcome.call = "evaluate" /\ expression.form = "expr"

\* the nodes evaluate(expression, data, computed_fields) evaluates node by
\* node, with the context of the call
ValueOf(node) ==
    eval_node(node, MergedContext(data, computed_fields), engine.functions)

\* the keys of a dict that lower-case to name
KeysFor(dict, name) == {k \in DOMAIN dict : Lower(k) = name}

\* the direct operands of an operator node
Operands(node) ==
    CASE node.t = "BinOp" -> {node.left, node.right}
      [] node.t = "UnaryOp" -> {node.operand}
      [] OTHER -> {}

\* the nodes joined to the root by operator nodes alone
RECURSIVE ArithmeticNodes(_)
ArithmeticNodes(node) ==
    {node} \cup UNION {ArithmeticNodes(x) : x \in Operands(node)}

\* the operator nodes among them with an operand that evaluates to None
NullOperandNodes ==
    {node \in ArithmeticNodes(expression.tree) :
        \E x \in Operands(node) : ~Raised(ValueOf(x)) /\ IsNone(ValueOf(x).v)}

\* C6: a reference to a field that is a key of the record with the value
\* None (and no computed field of that name) evaluates to None without an
\* error, and a reference to a field that is no key of the record, nor a
\* computed field, gives a Missing field error
C6_NullFieldIsSilent ==
    (Evaluated /\ expression.tree.t = "Name") =>
        LET name == Lower(expression.tree.id)
            raw == KeysFor(data, name)
            computed == KeysFor(computed_fields, name)
        IN  /\ outcome.exc = <<>>
            /\ (raw # {} /\ computed = {} /\ \A k \in raw : IsNone(data[k]))
                  => (IsNone(outcome.v.value) /\ outcome.v.error = <<>>)
            /\ (raw = {} /\ computed = {})
                  => (outcome.v.error # <<>>
                      /\ outcome.v.error[1] = "Missing field: ")

\* C7 (as amended): an operator node whose operands all evaluate, one of them
\* to None, evaluates to None and raises nothing, whatever its operator
\* (supported or not, a division by zero or not); and when nothing is raised
\* in the whole evaluation, the None goes up through the operator nodes
\* around it to the value of the result, which has no error
C7_NullOperandGivesNull ==
    Evaluated =>
        /\ \A node \in NullOperandNodes :
              (\A x \in Operands(node) : ~Raised(ValueOf(x)))
                  => (~Raised(ValueOf(node)) /\ IsNone(ValueOf(node).v))
        /\ (NullOperandNodes # {} /\ outcome.fault = <<>>)
              => (outcome.exc = <<>> /\ IsNone(outcome.v.value)
                  /\ outcome.v.error = <<>>)

\* C7 (as stated): an operator node with an operand that evaluates to None
\* evaluates to None and raises nothing
C7_AnyNullOperandGivesNull ==
    Evaluated =>
        \A node \in NullOperandNodes :
            ~Raised(ValueOf(node)) /\ IsNone(ValueOf(node).v)

\* C7 witness: -(Eps // 2) evaluated with a computed field eps that is None:
\* the value is None and there is no error, although // is not supported
C7_Witness ==
    /\ Evaluated
    /\ expression.tree =
          UnaryOp("USub", BinOp(Name(<<"E","p","s">>), "FloorDiv",
                                Constant(IntV(2))))
    /\ DOMAIN computed_fields # {}
    /\ outcome.exc = <<>>
    /\ IsNone(outcome.v.value)
    /\ outcome.v.error = <<>>

\* C8: evaluate raises nothing; whatever was raised inside it comes back as
\* a result with the value None and an error message that is not empty; and
\* a result with an error has the value None
C8_FailuresAreReturned ==
    outcome.call = "evaluate" =>
        /\ outcome.exc = <<>>
        /\ outcome.fault # <<>> =>
              /\ IsNone(outcome.v.value)
              /\ outcome.v.error # <<>>
              /\ outcome.v.error[1] # ""
        /\ outcome.v.error # <<>> => IsNone(outcome.v.value)

\* C8 witness: evaluate has returned from an expression the parser gave up
\* on with a RecursionError
C8_Witness ==
    /\ outcome.call = "evaluate"
    /\ outcome.fault # <<>>
    /\ outcome.fault[1] = "RecursionError"
    /\ outcome.exc = <<>>
    /\ outcome.v.error # <<>>

\* C9: the error of the result is a Missing field error exactly when the
\* evaluation reached a reference to a name that is not in the context (so
\* an unknown function or an unsupported operator is no Missing field error)
C9_MissingFieldExactly ==
    (Evaluated /\ outcome.exc = <<>>) =>
        LET context == MergedContext(data, computed_fields)
            reached == outcome.v.reached
        IN  (outcome.v.error # <<>> /\ outcome.v.error[1] = "Missing field: ")
                <=> (\E i \in DOMAIN reached : reached[i] \notin DOMAIN context)

\* C10: validate raises nothing, and when the text does not parse its result
\* is not valid and carries a syntax error message
C10_ValidateNeverRaises ==
    outcome.call = "validate" =>
        /\ outcome.exc = <<>>
        /\ outcome.fault # <<>> =>
              /\ ~outcome.v.is_valid
              /\ \E i \in DOMAIN outcome.v.errors :
                    outcome.v.errors[i][1] = "Syntax error: "

(***************************************************************************)
(* The tree validate walks                                                 *)
(***************************************************************************)
\* validate was called on an expression that parses
Validated == outcome.call = "validate" /\ expression.form = "expr"

NodeClasses ==
    {"Constant", "Name", "BinOp", "UnaryOp", "Compare", "BoolOp", "Call",
     "IfExp"}

\* the nodes directly below a node (the callee of a call belongs to the call)
Children(node) ==
    CASE node.t = "BinOp" -> <<node.left, node.right>>
      [] node.t = "UnaryOp" -> <<node.operand>>
      [] node.t = "Compare" -> <<node.left>> \o node.comparators
      [] node.t = "BoolOp" -> node.values
      [] node.t = "Call" -> node.args
      [] node.t = "IfExp" -> <<node.test, node.body, node.orelse>>
      [] node.t = "Attribute" -> <<node.value>>
      [] OTHER -> <<>>

\* a node _validate_node does not go below: a call whose callee is no bare
\* name, a node of a class it does not know
Opaque(node) ==
    \/ node.t \notin NodeClasses
    \/ node.t = "Call" /\ node.func.t # "Name"

\* the nodes below a node that validation goes to (all of them, or none)
Below(node, everywhere) ==
    IF everywhere \/ ~Opaque(node) THEN Children(node) ELSE <<>>

\* how many rules of the validator the node itself breaks
Faults(node, functions) ==
    CASE node.t = "Constant" ->
           IF node.value.k \in {"num", "bool", "none"} THEN 0 ELSE 1
      [] node.t \in {"BinOp", "UnaryOp"} ->
           IF node.op \in SAFE_OPERATORS THEN 0 ELSE 1
      [] node.t = "Compare" ->
           Cardinality({i \in DOMAIN node.ops :
                           i <= Len(node.comparators)
                           /\ node.ops[i] \notin SAFE_OPERATORS})
      [] node.t = "Call" ->
           IF node.func.t = "Name" /\ Upper(node.func.id) \in DOMAIN functions
           THEN 0 ELSE 1
      [] node.t \in {"Name", "BoolOp", "IfExp"} -> 0
      [] OTHER -> 1

\* the faults of a node and of the nodes below it, everywhere or only where
\* validation goes
RECURSIVE FaultCount(_, _, _)
RECURSIVE FaultCountOfAll(_, _, _)
FaultCountOfAll(nodes, functions, everywhere) ==
    IF nodes = <<>> THEN 0
    ELSE FaultCount(Head(nodes), functions, everywhere)
         + FaultCountOfAll(Tail(nodes), functions, everywhere)

FaultCount(node, functions, everywhere) ==
    Faults(node, functions)
    + FaultCountOfAll(Below(node, everywhere), functions, everywhere)

\* C11 (as amended): validation goes on after an error: the result has one
\* error for each fault of each node validation goes to, that is of every
\* node that is not below a node of an unknown class or among the arguments
\* of a call whose callee is no bare name; and is_valid says that the list
\* of errors is empty
C11_ErrorsAccumulate ==
    Validated =>
        /\ outcome.exc = <<>>
        /\ Len(outcome.v.errors)
              = FaultCount(expression.tree, engine.functions, FALSE)
        /\ outcome.v.is_valid <=> (outcome.v.errors = <<>>)

\* C11 (as stated): every fault of every node of the tree has its error
C11_EveryNodeContributes ==
    Validated =>
        /\ Len(outcome.v.errors)
              >= FaultCount(expression.tree, engine.functions, TRUE)
        /\ outcome.v.is_valid <=> (outcome.v.errors = <<>>)

\* C11 witness: FOO("s" // Eps) validated, with three errors: the unknown
\* function and, inside its argument, the operator and the constant
C11_Witness ==
    /\ Validated
    /\ expression.tree =
          Call(Name(<<"F","O","O">>),
               <<BinOp(Constant(Str), "FloorDiv", Name(<<"E","p","s">>))>>)
    /\ Len(outcome.v.errors) = 3
    /\ ~outcome.v.is_valid

\* a node and the nodes below it, everywhere or only where validation goes
RECURSIVE NodesIn(_, _)
NodesIn(node, everywhere) ==
    {node} \cup UNION {NodesIn(Below(node, everywhere)[i], everywhere) :
                            i \in DOMAIN Below(node, everywhere)}

\* the lower-cased identifiers of the field references among them
FieldNames(node, everywhere) ==
    {Lower(n.id) : n \in {m \in NodesIn(node, everywhere) : m.t = "Name"}}

\* the calls validation goes to of a bare name that is no function of the
\* engine
UnknownCalls ==
    {n \in NodesIn(expression.tree, FALSE) :
        /\ n.t = "Call"
        /\ n.func.t = "Name"
        /\ Upper(n.func.id) \notin DOMAIN engine.functions}

\* C12: a call of a bare name whose upper-cased form is no function of the
\* engine makes the result invalid, with an unknown-function error naming
\* the upper-cased name, which is in functions_used; the arguments are
\* validated (their fields are in fields_used, their faults among the
\* errors); and the callee is no field: fields_used holds the names of the
\* field references and nothing else
C12_UnknownFunction ==
    Validated =>
        \A call \in UnknownCalls :
            LET func_name == Upper(call.func.id) IN
            /\ outcome.exc = <<>>
            /\ ~outcome.v.is_valid
            /\ \E i \in DOMAIN outcome.v.errors :
                  outcome.v.errors[i] = <<"Unknown function: ", func_name>>
            /\ func_name \in outcome.v.functions_used
            /\ FieldNames(call, FALSE) \subseteq outcome.v.fields_used
            /\ Len(outcome.v.errors)
                  >= 1 + FaultCountOfAll(call.args, engine.functions, FALSE)
            /\ outcome.v.fields_used = FieldNames(expression.tree, FALSE)

\* C12 witness: Foo(0, 2) validated: not valid, the one error names FOO,
\* functions_used is {FOO} and fields_used is empty
C12_Witness ==
    /\ Validated
    /\ expression.tree =
          Call(Name(<<"F","o","o">>), <<Constant(IntV(0)), Constant(IntV(2))>>)
    /\ ~outcome.v.is_valid
    /\ outcome.v.errors = << <<"Unknown function: ", <<"F","O","O">> >> >>
    /\ outcome.v.functions_used = {<<"F","O","O">>}
    /\ outcome.v.fields_used = {}

\* C13 (as amended): fields_used is the set of the lower-cased identifiers
\* of the field references validation goes to (those that are not below a
\* node of an unknown class or among the arguments of a call whose callee is
\* no bare name), in the catalogue or not; and a field reference adds no
\* error: the errors are those of the operators, functions, constants and
\* node classes
C13_FieldsRecorded ==
    Validated =>
        /\ outcome.exc = <<>>
        /\ outcome.v.fields_used = FieldNames(expression.tree, FALSE)
        /\ Len(outcome.v.errors)
              = FaultCount(expression.tree, engine.functions, FALSE)
        /\ (FaultCount(expression.tree, engine.functions, TRUE) = 0)
              => outcome.v.is_valid

\* C13 (as stated): fields_used holds the identifier of every field
\* reference of the expression, and no identifier makes an error
C13_EveryFieldRecorded ==
    Validated =>
        /\ FieldNames(expression.tree, TRUE) \subseteq outcome.v.fields_used
        /\ (FaultCount(expression.tree, engine.functions, TRUE) = 0)
              => outcome.v.is_valid

\* C13 witness: X + x * Eps validated: valid, with fields_used {x, eps}
\* although x is not in the catalogue
C13_Witness ==
    /\ Validated
    /\ expression.tree =
          BinOp(Name(<<"X">>), "Add",
                BinOp(Name(<<"x">>), "Mult", Name(<<"E","p","s">>)))
    /\ <<"x">> \notin FUNDAMENTALS_FIELDS
    /\ outcome.v.is_valid
    /\ outcome.v.fields_used = {<<"x">>, <<"e","p","s">>}

(***************************************************************************)
(* Comparisons, boolean operators, calls and conditionals                  *)
(***************************************************************************)
\* evaluate returned this value and no error
Gave(value) ==
    /\ outcome.exc = <<>>
    /\ outcome.v.value = value
    /\ outcome.v.error = <<>>

\* operand number i of a chain: its left operand, then its comparators
Comparand(node, i) == IF i = 0 THEN node.left ELSE node.comparators[i]

\* link number j of a chain compares two values and holds
LinkHolds(node, j) ==
    LET l == ValueOf(Comparand(node, j - 1))
        r == ValueOf(Comparand(node, j))
    IN  /\ ~Raised(l) /\ ~Raised(r) /\ ~IsNone(l.v) /\ ~IsNone(r.v)
        /\ node.ops[j] \in SAFE_OPERATORS
        /\ LET c == ApplyCompareOp(node.ops[j], l.v, r.v) IN
           ~Raised(c) /\ Truthy(c.v)

\* C14 (as amended): a chained comparison is None when its left operand is
\* None, and when a comparator is None that the chain comes to, that is when
\* the operands before it evaluate and every link between them holds; a
\* comparator after a link that does not hold is not evaluated, and the
\* chain is then False, not None
C14_NullComparisonIsNull ==
    (Evaluated /\ expression.tree.t = "Compare") =>
        LET node == expression.tree
            null(i) == LET x == ValueOf(Comparand(node, i)) IN
                       ~Raised(x) /\ IsNone(x.v)
        IN  \A i \in 0..Len(node.comparators) :
                (/\ null(i)
                 /\ \A k \in 0..(i - 1) : ~Raised(ValueOf(Comparand(node, k)))
                 /\ \A j \in 1..(i - 1) : LinkHolds(node, j))
                    => Gave(None)

\* C14 (as stated): a chained comparison with a None left operand or
\* comparator is None
C14_AnyNullComparisonIsNull ==
    (Evaluated /\ expression.tree.t = "Compare") =>
        LET node == expression.tree IN
        (\E i \in 0..Len(node.comparators) :
            LET x == ValueOf(Comparand(node, i)) IN ~Raised(x) /\ IsNone(x.v))
            => Gave(None)

\* C14 witness: 0 < 2 < Eps evaluated with a computed field eps that is
\* None: the first link holds, the result is None
C14_Witness ==
    /\ Evaluated
    /\ expression.tree =
          Compare(Constant(IntV(0)), <<"Lt", "Lt">>,
                  <<Constant(IntV(2)), Name(<<"E","p","s">>)>>)
    /\ DOMAIN computed_fields # {}
    /\ Gave(None)

\* the names the evaluation of the first n of these nodes appends to
\* fields_used
RECURSIVE FieldsOfFirst(_, _)
FieldsOfFirst(nodes, n) ==
    IF n = 0 THEN <<>>
    ELSE FieldsOfFirst(nodes, n - 1) \o ValueOf(nodes[n]).fu

\* C15: "and" is False at its first operand that is None, False or zero, and
\* "or" is True at its first operand that is none of these; the operands
\* after it are not evaluated: no name of theirs is recorded and nothing
\* they would raise (a missing field) is raised.  With no such operand "and"
\* is True and "or" is False.  The value is a bool whenever there is no error.
C15_BoolOpShortCircuits ==
    (Evaluated /\ expression.tree.t = "BoolOp") =>
        LET node == expression.tree
            n == Len(node.values)
            falsy(v) == v.k = "none" \/ (v.k \in {"num", "bool"} /\ v.n = 0)
            stops(i) == LET x == ValueOf(node.values[i]) IN
                        /\ ~Raised(x)
                        /\ falsy(x.v) <=> (node.op = "And")
            passes(i) == LET x == ValueOf(node.values[i]) IN
                         /\ ~Raised(x)
                         /\ falsy(x.v) <=> (node.op = "Or")
        IN  /\ \A i \in 1..n :
                  (stops(i) /\ \A j \in 1..(i - 1) : passes(j))
                      => /\ Gave(Bool(node.op = "Or"))
                         /\ outcome.v.reached = FieldsOfFirst(node.values, i)
            /\ (\A i \in 1..n : passes(i)) => Gave(Bool(node.op = "And"))
            /\ (outcome.exc = <<>> /\ outcome.v.error = <<>>)
                  => outcome.v.value.k = "bool"

\* C15 witness: "None and Eps" evaluated where there is no field eps: False,
\* no error, no name recorded
C15_Witness ==
    /\ Evaluated
    /\ expression.tree = BoolOp("And", <<Constant(None), Name(<<"E","p","s">>)>>)
    /\ DOMAIN data = {}
    /\ DOMAIN computed_fields = {}
    /\ Gave(Bool(FALSE))
    /\ outcome.v.reached = <<>>

\* C16: a call of a function of the engine whose arguments evaluate:
\* COALESCE, IF and ISNULL are called with the values of the arguments, None
\* included; any other function (NULLIF, a function the caller added) is not
\* called when an argument is None, the call is None then; otherwise it is
\* called with the values, and what it returns or raises is what the call
\* returns or raises
C16_NullArgumentsPropagate ==
    (/\ Evaluated
     /\ expression.tree.t = "Call"
     /\ expression.tree.func.t = "Name"
     /\ Upper(expression.tree.func.id) \in DOMAIN engine.functions
     /\ \A i \in DOMAIN expression.tree.args :
           ~Raised(ValueOf(expression.tree.args[i]))) =>
        LET node == expression.tree
            func_name == Upper(node.func.id)
            args == [i \in DOMAIN node.args |-> ValueOf(node.args[i]).v]
            called == CallFunction(engine.functions[func_name], args)
        IN  IF func_name \notin {<<"C","O","A","L","E","S","C","E">>, <<"I","F">>,
                                 <<"I","S","N","U","L","L">>}
               /\ \E i \in DOMAIN args : IsNone(args[i])
            THEN Gave(None)
            ELSE /\ outcome.fault = called.exc
                 /\ called.exc = <<>> => Gave(called.v)

\* C16 witness: FOO(Eps) evaluated with a computed field eps that is None on
\* an engine whose FOO is lambda x: x is None: the result is None, not True
C16_Witness ==
    /\ Evaluated
    /\ expression.tree = Call(Name(<<"F","O","O">>), <<Name(<<"E","p","s">>)>>)
    /\ <<"F","O","O">> \in DOMAIN engine.functions
    /\ DOMAIN computed_fields # {}
    /\ Gave(None)

\* C17: of a conditional the test is evaluated, then one branch: the body
\* when the test is neither None, False nor zero, the other branch when it
\* is; what that branch returns or raises is what the conditional returns or
\* raises, and the names recorded are those of the test and of that branch.
\* The other branch is not evaluated: nothing it would raise is raised, no
\* name of it is recorded.
C17_OneBranchEvaluated ==
    (Evaluated /\ expression.tree.t = "IfExp") =>
        LET node == expression.tree
            test == ValueOf(node.test)
            falsy == test.v.k = "none"
                     \/ (test.v.k \in {"num", "bool"} /\ test.v.n = 0)
            taken == ValueOf(IF falsy THEN node.orelse ELSE node.body)
        IN  IF Raised(test)
            THEN outcome.fault = test.exc /\ outcome.v.reached = test.fu
            ELSE /\ outcome.fault = taken.exc
                 /\ outcome.v.reached = test.fu \o taken.fu
                 /\ taken.exc = <<>> => Gave(taken.v)

\* C17 witness: "2 if 2 else Eps" evaluated where there is no field eps: the
\* value is 2, there is no error and no name is recorded
C17_Witness ==
    /\ Evaluated
    /\ expression.tree =
          IfExp(Constant(IntV(2)), Constant(IntV(2)), Name(<<"E","p","s">>))
    /\ DOMAIN data = {}
    /\ DOMAIN computed_fields = {}
    /\ Gave(IntV(2))
    /\ outcome.v.reached = <<>>

\* C18: with arguments that evaluate, COALESCE gives its first argument that
\* is not None, and None when there is none; ISNULL(x) gives True when x is
\* None and False when it is not; IF(c, a, b) gives a when c is neither
\* None, False nor zero, and b when it is; each without an error
C18_NullAwareFunctions ==
    (/\ Evaluated
     /\ expression.tree.t = "Call"
     /\ expression.tree.func.t = "Name"
     /\ \A i \in DOMAIN expression.tree.args :
           ~Raised(ValueOf(expression.tree.args[i]))) =>
        LET node == expression.tree
            func_name == Upper(node.func.id)
            n == Len(node.args)
            arg(i) == ValueOf(node.args[i]).v
            falsy(v) == v.k = "none" \/ (v.k \in {"num", "bool"} /\ v.n = 0)
        IN  /\ func_name = <<"C","O","A","L","E","S","C","E">> =>
                  /\ \A i \in 1..n :
                        (arg(i).k # "none" /\ \A j \in 1..(i - 1) : arg(j).k = "none")
                            => Gave(arg(i))
                  /\ (\A i \in 1..n : arg(i).k = "none") => Gave(None)
            /\ (func_name = <<"I","S","N","U","L","L">> /\ n = 1) =>
                  Gave(Bool(arg(1).k = "none"))
            /\ (func_name = <<"I","F">> /\ n = 3) =>
                  Gave(IF falsy(arg(1)) THEN arg(3) ELSE arg(2))

\* C18 witness: COALESCE(None, Eps, 2) evaluated with a computed field eps
\* that is None: the value is 2 and there is no error
C18_Witness ==
    /\ Evaluated
    /\ expression.tree =
          Call(Name(<<"C","O","A","L","E","S","C","E">>),
               <<Constant(None), Name(<<"E","p","s">>), Constant(IntV(2))>>)
    /\ DOMAIN computed_fields # {}
    /\ Gave(IntV(2))

(***************************************************************************)
(* Calls on one engine                                                     *)
(***************************************************************************)
\* two calls of evaluate that were given the same arguments
SameArguments(a, b) ==
    /\ a.call = "evaluate"
    /\ b.call = "evaluate"
    /\ a.expression = b.expression
    /\ a.data = b.data
    /\ a.computed_fields = b.computed_fields

CaretWritten ==
    /\ expression.form = "expr"
    /\ expression.tree.t = "BinOp"
    /\ expression.tree.op = "BitXor"

\* what evaluate gives for the same operands written left ** right
WrittenWithStars ==
    evaluate(Ok([expression.tree EXCEPT !.op = "Pow"]), data, computed_fields,
             engine.functions)

\* C20: power may be written ^ as well as **: validate reports no unsupported
\* operator for a ^ b, and evaluate gives for a ^ b what it gives for a ** b
C20_CaretIsPower ==
    CaretWritten =>
        /\ outcome.call = "validate" =>
              \A i \in DOMAIN outcome.v.errors :
                 outcome.v.errors[i][1] # "Unsupported operator: "
        /\ outcome.call = "evaluate" =>
              /\ outcome.exc = WrittenWithStars.exc
              /\ outcome.v.value = WrittenWithStars.v.value
              /\ outcome.v.error = WrittenWithStars.v.error

(***************************************************************************)
(* The error classes of evaluate                                           *)
(***************************************************************************)
\* the call failed on a reference to a field that is not in the context
MissingFieldFault ==
    /\ outcome.fault # <<>>
    /\ outcome.fault[1] = "KeyError"
    /\ \E i \in DOMAIN outcome.v.reached :
          /\ outcome.v.reached[i] = outcome.fault[2]
          /\ outcome.fault[2] \notin DOMAIN MergedContext(data, computed_fields)

\* the call failed on a value outside the domain of a math function
MathDomainFault ==
    /\ outcome.fault # <<>>
    /\ outcome.fault = <<"ValueError", <<"math domain error">> >>

\* C24: a failure of evaluate that is no division by zero, no math-domain
\* violation and no missing field (an unsupported node shape, for one) gives
\* an error that starts with "Evaluation error", and an error that starts
\* with "Math error" is given for math-domain violations only
C24_OtherFailuresAreEvaluationErrors ==
    (outcome.call = "evaluate" /\ outcome.exc = <<>> /\ outcome.fault # <<>>) =>
        /\ (/\ outcome.fault[1] # "ZeroDivisionError"
            /\ ~MathDomainFault
            /\ ~MissingFieldFault)
           => outcome.v.error[1] = "Evaluation error: "
        /\ outcome.v.error[1] = "Math error: " => MathDomainFault

(***************************************************************************)
(* Chained comparisons                                                     *)
(***************************************************************************)
\* the operands of a chain, its left operand first
ChainOperands(node) == <<node.left>> \o node.comparators

\* C25: a chained comparison whose operands are not None is True iff every
\* link holds between the two operands next to it; the operands are evaluated
\* from left to right, each once, up to the first link that does not hold,
\* where the chain is False: the comparators after that link are not
\* evaluated (no name of theirs is recorded) and raise nothing
C25_ChainedComparison ==
    (Evaluated /\ expression.tree.t = "Compare") =>
        LET node == expression.tree
            n == Len(node.comparators)
            fine(i) == LET x == ValueOf(Comparand(node, i)) IN
                       ~Raised(x) /\ ~IsNone(x.v)
            fails(j) ==
                /\ node.ops[j] \in SAFE_OPERATORS
                /\ LET c == ApplyCompareOp(node.ops[j],
                                           ValueOf(Comparand(node, j - 1)).v,
                                           ValueOf(Comparand(node, j)).v)
                   IN  ~Raised(c) /\ c.v = Bool(FALSE)
        IN  /\ (\A i \in 0..n : fine(i))
                  => (Gave(Bool(TRUE)) <=> \A j \in 1..n : LinkHolds(node, j))
            /\ (\A j \in 1..n : LinkHolds(node, j))
                  => outcome.v.reached = FieldsOfFirst(ChainOperands(node), n + 1)
            /\ \A k \in 1..n :
                  (/\ \A i \in 0..k : fine(i)
                   /\ \A j \in 1..(k - 1) : LinkHolds(node, j)
                   /\ fails(k))
                      => /\ Gave(Bool(FALSE))
                         /\ outcome.v.reached =
                               FieldsOfFirst(ChainOperands(node), k + 1)

\* C25 witness: 2 < 0 < Eps evaluated with no eps in the record: the first
\* link does not hold, Eps is not evaluated, the result is False
C25_Witness ==
    /\ Evaluated
    /\ expression.tree =
          Compare(Constant(IntV(2)), <<"Lt", "Lt">>,
                  <<Constant(IntV(0)), Name(<<"E","p","s">>)>>)
    /\ data = <<>>
    /\ computed_fields = <<>>
    /\ Gave(Bool(FALSE))
    /\ outcome.v.reached = <<>>

(***************************************************************************)
(* The arguments of a call                                                 *)
(***************************************************************************)
\* the expression is a call of a function of the engine
CallOfKnownFunction ==
    /\ Evaluated
    /\ expression.tree.t = "Call"
    /\ expression.tree.func.t = "Name"
    /\ Upper(expression.tree.func.id) \in DOMAIN engine.functions

\* argument number i of the call raises when it is evaluated
ArgumentRaises(i) == Raised(ValueOf(expression.tree.args[i]))

\* C26: every argument of a call is evaluated, in order, before the function
\* is applied: when no argument raises, the names of all of them are
\* recorded; when one raises (a division by zero, a missing field), the call
\* fails with what the first such argument raised, also for IF(c, a, b) when
\* the argument that raises is the one c does not select
C26_ArgumentsEvaluatedFirst ==
    CallOfKnownFunction =>
        LET args == expression.tree.args
            n == Len(args)
        IN  /\ (\A i \in 1..n : ~ArgumentRaises(i))
                  => outcome.v.reached = FieldsOfFirst(args, n)
            /\ \A i \in 1..n :
                  (ArgumentRaises(i) /\ \A j \in 1..(i - 1) : ~ArgumentRaises(j))
                      => /\ outcome.fault = ValueOf(args[i]).exc
                         /\ outcome.exc = <<>>
                         /\ outcome.v.error # <<>>
                         /\ outcome.v.value = None

\* C26 witness: IF(0, 2 / 0, Eps) evaluated on a record with an eps: the
\* condition selects Eps, and the call fails with the division by zero
C26_Witness ==
    /\ CallOfKnownFunction
    /\ Upper(expression.tree.func.id) = <<"I","F">>
    /\ Len(expression.tree.args) = 3
    /\ ~ArgumentRaises(1)
    /\ ~Truthy(ValueOf(expression.tree.args[1]).v)
    /\ ArgumentRaises(2)
    /\ ~ArgumentRaises(3)
    /\ outcome.v.error = <<"Division by zero", <<>> >>

(***************************************************************************)
(* validate and evaluate on one expression                                 *)
(***************************************************************************)
\* what validate returns on the engine of the call for the expression of
\* the call
ValidationOfExpression ==
    validate(Ok(expression.tree), engine.functions).v

\* the call failed on the expression itself: a function the engine does not
\* have, an operator with no entry in SAFE_OPERATORS, a callee that is no
\* name, a node class _eval_node has no branch for
LanguageFault ==
    /\ outcome.fault # <<>>
    /\ \/ outcome.fault[1] = "KeyError" /\ ~MissingFieldFault
       \/ outcome.fault[1] = "AttributeError"
       \/ /\ outcome.fault[1] = "ValueError"
          /\ outcome.fault[2][1] = "Cannot evaluate node type: "

\* C27: an expression validate finds valid on an engine is one evaluate can
\* walk on that engine, whatever the context: evaluate does not fail on an
\* unknown function, on an operator missing from SAFE_OPERATORS or on a node
\* it has no branch for; it fails on missing fields and on what applying an
\* operator or a function to the values raises
C27_ValidMeansEvaluable ==
    (Evaluated /\ ValidationOfExpression.is_valid) =>
        /\ ~LanguageFault
        /\ outcome.fault # <<>> =>
              \/ MissingFieldFault
              \/ outcome.fault[1] \in {"ZeroDivisionError", "TypeError"}
              \/ MathDomainFault

\* C27 witness: SUM(2), which validate finds valid, fails in the call of sum
C27_Witness ==
    /\ Evaluated
    /\ ValidationOfExpression.is_valid
    /\ expression.tree.t = "Call"
    /\ Upper(expression.tree.func.id) = <<"S","U","M">>
    /\ outcome.fault # <<>>
    /\ outcome.fault[1] = "TypeError"
    /\ outcome.v.error[1] = "Evaluation error: "

(***************************************************************************)
(* fields_used of a FormulaResult                                          *)
(***************************************************************************)
\* the names of the field references the call read a value for, in the
\* order of the reads, a name once for every read
NamesRead == [i \in DOMAIN outcome.v.reads |-> outcome.v.reads[i][1]]

\* C29: when evaluate succeeds, fields_used lists the lower-cased names of
\* the field references that were evaluated, in the order of their
\* evaluation and once for each evaluation, and every one of them is in the
\* fields_used validate gives for the expression; when evaluate fails,
\* fields_used is empty, also when references were evaluated before the
\* failure
C29_FieldsUsedOfEvaluate ==
    (Evaluated /\ outcome.exc = <<>>) =>
        /\ outcome.v.error = <<>> =>
              /\ outcome.v.fields_used = NamesRead
              /\ outcome.v.fields_used = outcome.v.reached
              /\ \A i \in DOMAIN outcome.v.fields_used :
                    /\ outcome.v.fields_used[i] = Lower(outcome.v.fields_used[i])
                    /\ outcome.v.fields_used[i]
                          \in ValidationOfExpression.fields_used
        /\ outcome.v.error # <<>> => outcome.v.fields_used = <<>>

\* C29 witness: an evaluation that fails after it has read a field (~Eps on
\* a record with an eps, for one): fields_used is empty
C29_Witness ==
    /\ Evaluated
    /\ outcome.exc = <<>>
    /\ outcome.v.error # <<>>
    /\ outcome.v.reads # <<>>
    /\ outcome.v.fields_used = <<>>

(***************************************************************************)
(* SUM, AVG, MAX and MIN                                                   *)
(***************************************************************************)
\* the values of the arguments of the call
ArgumentValues ==
    [i \in DOMAIN expression.tree.args |-> ValueOf(expression.tree.args[i]).v]

\* C30: SUM, AVG, MAX and MIN of one or more numbers, none of them None,
\* give their sum, their mean, the largest and the smallest of them, each
\* without an error
C30_Aggregates ==
    (/\ CallOfKnownFunction
     /\ Len(expression.tree.args) >= 1
     /\ \A i \in DOMAIN expression.tree.args :
           ~ArgumentRaises(i) /\ IsNumber(ArgumentValues[i]))
        => LET f == Upper(expression.tree.func.id)
               n == Len(expression.tree.args)
           IN  /\ f = <<"S","U","M">> => Gave(SumOf(ArgumentValues))
               /\ f = <<"A","V","G">>
                     => Gave(NumDiv(SumOf(ArgumentValues), IntV(n)).v)
               /\ f = <<"M","A","X">> => Gave(MaxOf(ArgumentValues))
               /\ f = <<"M","I","N">> => Gave(MinOf(ArgumentValues))

(***************************************************************************)
(* Functions of the caller                                                 *)
(***************************************************************************)
\* the keys of additional_functions that are no keys of SAFE_FUNCTIONS
AdditionalKeys == DOMAIN engine.functions \ DOMAIN FormulaEngine(<<>>).functions

\* the expression calls, in some spelling, a function the caller gave
CallOfAdditionalFunction ==
    /\ expression.form = "expr"
    /\ expression.tree.t = "Call"
    /\ expression.tree.func.t = "Name"
    /\ \E key \in AdditionalKeys :
          Upper(key) = Upper(expression.tree.func.id)

\* C22: a function given in additional_functions, under a key in any letter
\* case, is a function for validate (no unknown-function error) and is
\* called by evaluate, however the expression spells its name; and the
\* engine has the built-in functions as they are
C22_AdditionalFunctionAnyCase ==
    /\ \A name \in DOMAIN FormulaEngine(<<>>).functions :
          engine.functions[name] = FormulaEngine(<<>>).functions[name]
    /\ CallOfAdditionalFunction =>
          /\ outcome.call = "validate" =>
                \A i \in DOMAIN outcome.v.errors :
                   outcome.v.errors[i][1] # "Unknown function: "
          /\ outcome.call = "evaluate" =>
                ~(/\ outcome.fault # <<>>
                  /\ outcome.fault[1] = "KeyError"
                  /\ outcome.fault[2] = Upper(expression.tree.func.id))

(***************************************************************************)
(* Requests to /mcp/formula.create                                         *)
(***************************************************************************)
\* validate, on a new engine, finds the expression of a payload valid: the
\* expression parses and none of its nodes is in error
ValidText(text) ==
    /\ text.form = "expr"
    /\ FaultCount(text.tree, FormulaEngine(<<>>).functions, FALSE) = 0

\* validate returns, on a new engine, a result that is not valid
InvalidText(text) ==
    \/ text.form = "malformed"
    \/ /\ text.form = "expr"
       /\ FaultCount(text.tree, FormulaEngine(<<>>).functions, FALSE) > 0

\* C21: every row create_formula has written holds the expression of its
\* request, which validate found valid at that request; a request whose
\* expression validate finds not valid is answered with an error and leaves
\* formula_definitions as it was
C21_OnlyValidFormulasStored ==
    /\ \A i \in DOMAIN log :
          LET e == log[i] IN
          /\ e.after # e.before =>
                /\ e.response.raised = ""
                /\ ValidText(e.payload.expression)
                /\ \E r \in e.after :
                      /\ r.id = e.response.id
                      /\ r.expression = e.payload.expression
                      /\ e.after = {x \in e.before : x.id # r.id} \cup {r}
          /\ e.response.raised = "" => ValidText(e.payload.expression)
          /\ (e.payload.name # <<>> /\ InvalidText(e.payload.expression)) =>
                /\ e.response.raised = "HTTPException"
                /\ e.response.detail[1] = "Invalid expression: "
                /\ e.after = e.before
    /\ \A r \in formula_definitions \ system_formulas : ValidText(r.expression)

\* C21 witness: a request with a valid expression has written a row, and a
\* later request with the same name and "FOO(2) ^ 2" was refused and left
\* the row as it was
C21_Witness ==
    /\ Len(log) = 2
    /\ log[1].response.raised = ""
    /\ log[1].after # log[1].before
    /\ log[2].payload.name = log[1].payload.name
    /\ log[2].payload.id = log[1].payload.id
    /\ log[2].payload.expression.form = "expr"
    /\ log[2].response.raised = "HTTPException"
    /\ log[2].after = log[1].after
    /\ formula_definitions = log[1].after

(***************************************************************************)
(* One record of the batch, taken alone                                    *)
(***************************************************************************)
\* the values the formulas of a list, from number j on, get on a record
\* when they are evaluated in list order with a synthetic-field map of the
\* record's own, which holds computed so far
RECURSIVE PassOf(_, _, _, _)
PassOf(record, list, j, computed) ==
    IF j > Len(list) THEN <<>>
    ELSE LET parsed == CHOOSE p \in ast_parse_here(list[j].expression) : TRUE
             value == evaluate(parsed, record, computed,
                               FormulaEngine(<<>>).functions).v.value
             next == IF IsNone(value) THEN computed
                     ELSE DictSet(computed, SyntheticKey(list[j].name), value)
         IN  <<value>> \o PassOf(record, list, j + 1, next)

\* the values of the formulas on each record taken alone
AloneValues ==
    [r \in 1..NumRecords |-> PassOf(fundamentals[r], formulas, 1, <<>>)]

Written(n) == {i \in 1..n : ~IsNone(log[i].result.value)}

\* PRIMARY KEY (ticker, as_of, metric_name) of the row step i writes
MetricKey(i) == <<log[i].row, log[i].formula.name>>

\* the table in which every key holds what the last non-null step on that
\* key, among the first n steps, gave
PersistedAfter(n) ==
    [k \in {MetricKey(i) : i \in Written(n)} |->
        LET last == Latest({i \in Written(n) : MetricKey(i) = k})
        IN  [formula_id |-> log[last].formula.id,
             value |-> log[last].result.value]]

StepsOfRun(k) == {i \in DOMAIN log : log[i].run = k}

\* the order in which run k met the formulas
OrderOfRun(k) == {<<log[i].pos, log[i].formula.id>> : i \in StepsOfRun(k)}

CountOfRun(k) == Cardinality(StepsOfRun(k) \cap Written(Len(log)))

\* C28 as stated: after a run every pair with a non-null result has a row
\* that equals that result, and a second run over the same rows of
\* formula_definitions and fundamentals leaves the table as the first left it
\* and returns the same count.
C28_RunsLeaveEachResult ==
    pc = "done" =>
        /\ \A i \in StepsOfRun(run) \cap Written(Len(log)) :
              /\ MetricKey(i) \in DOMAIN computed_metrics
              /\ computed_metrics[MetricKey(i)]
                    = [formula_id |-> log[i].formula.id,
                       value |-> log[i].result.value]
        /\ run > 1 =>
              /\ computed_metrics = PersistedAfter(Latest(StepsOfRun(run - 1)))
              /\ returned = <<"return", CountOfRun(run - 1)>>

\* C28, amended: at every moment computed_metrics holds, for each (record,
\* metric name) some step of this or an earlier run gave a non-null value
\* for, the value and formula id of the last such step, and nothing else: a
\* null or failed evaluation writes and deletes nothing, and of two formulas
\* with one name the later non-null one owns the row.  A run that met the
\* formulas in the order of the run before it leaves the table as that run
\* left it and returns the same count.
C28_RunsOnlyUpsert ==
    /\ computed_metrics = PersistedAfter(Len(log))
    /\ (pc = "done" /\ run > 1 /\ OrderOfRun(run) = OrderOfRun(run - 1)) =>
          /\ computed_metrics = PersistedAfter(Latest(StepsOfRun(run - 1)))
          /\ returned = <<"return", CountOfRun(run - 1)>>

\* a second run is over, in which a formula gave no value on a record for
\* which an earlier run had stored one, beside a record with a stored row
\* of its own
C28_Witness ==
    /\ pc = "done"
    /\ run > 1
    /\ \E i \in StepsOfRun(run) :
          /\ IsNone(log[i].result.value)
          /\ MetricKey(i) \in DOMAIN computed_metrics
          /\ \E k \in DOMAIN computed_metrics : k[1] # log[i].row

====
